---- MODULE Spec2Model ----
(***************************************************************************)
(* Model of the graph-resolution phase of PowersAPI (src/src/load.rs):     *)
(* load_powers_dictionary and the functions it calls.  The tables produced *)
(* by the binary readers are the inputs; the run is a batch that goes      *)
(* through read_powercats_bin, match_archetypes_to_power_categories, the   *)
(* power-set filter, the two linking steps, the top-level cascade, the     *)
(* fixed-point loop and fix_data_in_power_hierarchy.                       *)
(*                                                                         *)
(* A NameKey is a sequence of segments (<<"cat","set","power">>), None is  *)
(* the empty sequence.  A Keyed<T> table is a function from keys to        *)
(* records; an ObjRef<T> is the key of the record it points to.            *)
(***************************************************************************)
EXTENDS Integers, Sequences, FiniteSets, TLC

VARIABLES
    config,                     \* PowersConfig: power_categories, filter_powersets, global_categories
    archetypes,                 \* Keyed<Archetype> read from classes.bin
    villain_archetypes,         \* Keyed<Archetype> read from villain_classes.bin
    villains,                   \* Keyed<VillainDef>
    power_categories,           \* Keyed<PowerCategory>
    power_sets,                 \* Keyed<BasePowerSet>
    powers,                     \* Keyed<BasePower>
    power_categories_returned,  \* Vec<ObjRef<PowerCategory>> handed to the writer
    pc,                         \* position in load_powers_dictionary
    count,                      \* the loop's count of the current iteration
    passes,                     \* iterations of the loop started so far
    run,                        \* 1 in the program's run of the loop, 2 in a repeated run
    snapshot                    \* the graph as the first run of the loop left it

vars == <<config, archetypes, villain_archetypes, villains, power_categories,
          power_sets, powers, power_categories_returned, pc, count, passes,
          run, snapshot>>

inputs == <<config, archetypes, villain_archetypes, villains>>

(***************************************************************************)
(* Generic helpers.                                                        *)
(***************************************************************************)
None == <<>>

\* None of an Option<String>.
NoString == ""

Range(s) == {s[i] : i \in 1..Len(s)}

Contains(s, x) == \E i \in 1..Len(s) : s[i] = x

\* All orders in which the values of a HashMap with key set S can be visited.
Orders(S) ==
    {o \in [1..Cardinality(S) -> S] : \A i, j \in 1..Cardinality(S) : i # j => o[i] # o[j]}

RECURSIVE Flatten(_)
Flatten(ss) == IF ss = <<>> THEN <<>> ELSE Head(ss) \o Flatten(Tail(ss))

\* A reference to an archetype record: the table that owns it and its key.
ATRef(table, key) == [table |-> table, key |-> key]

WILDCARD == "*"

\* NameKey::is_wildcard
is_wildcard(segment) == segment = WILDCARD

\* The first segment and the first two segments of a three-segment key, as keys.
CatKeyOf(power_ref) == <<power_ref[1]>>

SetKeyOf(power_ref) == <<power_ref[1], power_ref[2]>>

(***************************************************************************)
(* mark_power_for_inclusion, on a graph g = [cats, sets, powers, count,    *)
(* ok].  held is the key of the power record the calling pass has          *)
(* borrowed; borrowing it again for mutation panics (ok = FALSE).          *)
(***************************************************************************)
\* Mutant of MergeArchetypes: an inheriting archetype is compared with the
\* list as it was before the call only.
MergeArchetypes_NoRecheck(list, ats) ==
    list \o SelectSeq(ats, LAMBDA at : ~Contains(list, at))

RECURSIVE MergeArchetypes(_, _)
MergeArchetypes(list, ats) ==
    IF ats = <<>> THEN list
    ELSE MergeArchetypes(IF Contains(list, Head(ats)) THEN list
                         ELSE Append(list, Head(ats)),
                         Tail(ats))

\* Mutants of MarkFoundPower: the archetypes are copied but the power is not
\* included; the power is included only when there are archetypes to copy;
\* marking a power makes its redirects due again.
MarkFoundPower_ArchetypesOnly(power, ats) ==
    [power EXCEPT !.archetypes = MergeArchetypes(@, ats)]

MarkFoundPower_IncludeIfArchetypes(power, ats) ==
    [power EXCEPT !.include_in_output = (ats # <<>>),
                  !.archetypes = MergeArchetypes(@, ats)]

MarkFoundPower_ResetLatch(power, ats) ==
    [power EXCEPT !.include_in_output = TRUE,
                  !.redirects_resolved = FALSE,
                  !.archetypes = MergeArchetypes(@, ats)]

MarkFoundPower(power, ats) ==
    [power EXCEPT !.include_in_output = TRUE,
                  !.archetypes = MergeArchetypes(@, ats)]

\* Mutant of MarkCategory: a category that was not included becomes top-level
\* when it is marked.
MarkCategory_PromoteNew(g, power_ref) ==
    IF CatKeyOf(power_ref) \in DOMAIN g.cats
    THEN [g EXCEPT !.cats[CatKeyOf(power_ref)].include_in_output = TRUE,
                   !.cats[CatKeyOf(power_ref)].top_level =
                       @ \/ ~g.cats[CatKeyOf(power_ref)].include_in_output]
    ELSE g

\* Mutant of MarkCategory: a marked category also becomes top-level.
MarkCategory_TopLevel(g, power_ref) ==
    IF CatKeyOf(power_ref) \in DOMAIN g.cats
    THEN [g EXCEPT !.cats[CatKeyOf(power_ref)].include_in_output = TRUE,
                   !.cats[CatKeyOf(power_ref)].top_level = TRUE]
    ELSE g

\* include power category
MarkCategory(g, power_ref) ==
    IF CatKeyOf(power_ref) \in DOMAIN g.cats
    THEN [g EXCEPT !.cats[CatKeyOf(power_ref)].include_in_output = TRUE]
    ELSE g

\* Mutant of MarkSet: the set is looked up under the category's key.
MarkSet_ByCategoryKey(g, power_ref) ==
    IF CatKeyOf(power_ref) \in DOMAIN g.sets
    THEN [g EXCEPT !.sets[CatKeyOf(power_ref)].include_in_output = TRUE]
    ELSE g

\* include power set
MarkSet(g, power_ref) ==
    IF SetKeyOf(power_ref) \in DOMAIN g.sets
    THEN [g EXCEPT !.sets[SetKeyOf(power_ref)].include_in_output = TRUE]
    ELSE g

\* Mutant of MarkPower: the lookup of the power is unwrapped, a miss panics.
MarkPower_UnwrapMissing(g, power_ref, ats, held) ==
    IF power_ref \in DOMAIN g.powers /\ power_ref # held
    THEN [g EXCEPT !.powers[power_ref] = MarkFoundPower(@, ats)]
    ELSE [g EXCEPT !.ok = FALSE]

\* include power
MarkPower(g, power_ref, ats, held) ==
    IF power_ref \in DOMAIN g.powers
    THEN IF power_ref = held
         THEN [g EXCEPT !.ok = FALSE]
         ELSE [g EXCEPT !.powers[power_ref] = MarkFoundPower(@, ats)]
    ELSE g

\* Mutant of mark_power_for_inclusion: the set is looked up only when the
\* category was found, the power only when the set was found.
mark_power_for_inclusion_Nested(g, power_ref, ats, held) ==
    IF CatKeyOf(power_ref) \notin DOMAIN g.cats THEN g
    ELSE IF SetKeyOf(power_ref) \notin DOMAIN g.sets THEN MarkCategory(g, power_ref)
    ELSE MarkPower(MarkSet(MarkCategory(g, power_ref), power_ref), power_ref, ats, held)

mark_power_for_inclusion(g, power_ref, ats, held) ==
    MarkPower(MarkSet(MarkCategory(g, power_ref), power_ref), power_ref, ats, held)

\* Mark every key of refs in turn, stopping at a panic.
RECURSIVE MarkAll(_, _, _, _)
MarkAll(g, refs, ats, held) ==
    IF refs = <<>> \/ ~g.ok THEN g
    ELSE MarkAll(mark_power_for_inclusion(g, Head(refs), ats, held), Tail(refs), ats, held)

(***************************************************************************)
(* resolve_power_redirects.                                                *)
(***************************************************************************)
RedirectNames(power) ==
    LET named == SelectSeq(power.pp_redirect, LAMBDA r : r.pch_name # None)
    IN  [i \in 1..Len(named) |-> named[i].pch_name]

\* Mutant of LatchRedirects: the power is counted but not latched.
LatchRedirects_CountOnly(g, k) ==
    IF g.ok THEN [g EXCEPT !.count = @ + 1] ELSE g

\* power.redirects_resolved = true; count_resolved += 1 (not reached after a panic).
LatchRedirects(g, k) ==
    IF g.ok
    THEN [g EXCEPT !.powers[k].redirects_resolved = TRUE, !.count = @ + 1]
    ELSE g

\* Mutant of VisitRedirects: every visited power is latched, included or not.
VisitRedirects_LatchAlways(g, k) ==
    IF g.powers[k].include_in_output /\ ~g.powers[k].redirects_resolved
    THEN LatchRedirects(MarkAll(g, RedirectNames(g.powers[k]), g.powers[k].archetypes, k), k)
    ELSE [g EXCEPT !.powers[k].redirects_resolved = TRUE]

\* Mutant of VisitRedirects: the targets are marked with no inheriting archetype.
VisitRedirects_NoArchetypes(g, k) ==
    IF g.powers[k].include_in_output /\ ~g.powers[k].redirects_resolved
    THEN LatchRedirects(MarkAll(g, RedirectNames(g.powers[k]), <<>>, k), k)
    ELSE g

\* The body of the loop over powers.values() for the power keyed k.
VisitRedirects(g, k) ==
    IF g.powers[k].include_in_output /\ ~g.powers[k].redirects_resolved
    THEN LatchRedirects(MarkAll(g, RedirectNames(g.powers[k]), g.powers[k].archetypes, k), k)
    ELSE g

RECURSIVE resolve_power_redirects(_, _)
resolve_power_redirects(g, order) ==
    IF order = <<>> \/ ~g.ok THEN g
    ELSE resolve_power_redirects(VisitRedirects(g, Head(order)), Tail(order))

(***************************************************************************)
(* copy_powers_to_entcreate and mark_powers_in_power_param.                *)
(***************************************************************************)
\* Mutant of PowerRefNames: a wildcard reference contributes only the declared
\* names that are in the power table.
PowerRefNames_OnlyFound(g, power_ref) ==
    IF is_wildcard(power_ref.power)
    THEN LET power_set_name == <<power_ref.power_category, power_ref.power_set>>
         IN  IF power_set_name \in DOMAIN g.sets
             THEN SelectSeq(g.sets[power_set_name].pp_power_names,
                            LAMBDA n : n \in DOMAIN g.powers)
             ELSE <<>>
    ELSE <<>>

\* The power names one power reference of a VillainDef contributes.
\* Mutant of PowerRefNames: a specific reference contributes its key whether
\* the power table has it or not.
PowerRefNames_Unchecked(g, power_ref) ==
    IF is_wildcard(power_ref.power)
    THEN LET power_set_name == <<power_ref.power_category, power_ref.power_set>>
         IN  IF power_set_name \in DOMAIN g.sets
             THEN g.sets[power_set_name].pp_power_names
             ELSE <<>>
    ELSE << <<power_ref.power_category, power_ref.power_set, power_ref.power>> >>

PowerRefNames(g, power_ref) ==
    IF is_wildcard(power_ref.power)
    THEN LET power_set_name == <<power_ref.power_category, power_ref.power_set>>
         IN  IF power_set_name \in DOMAIN g.sets
             THEN g.sets[power_set_name].pp_power_names
             ELSE <<>>
    ELSE LET power_name == <<power_ref.power_category, power_ref.power_set, power_ref.power>>
         IN  IF power_name \in DOMAIN g.powers /\ g.powers[power_name].pch_full_name # None
             THEN <<g.powers[power_name].pch_full_name>>
             ELSE <<>>

\* The archetype of the entity: zero or one reference into villain_archetypes.
EntityArchetypes(villain_def) ==
    IF villain_def.character_class_name # NoString
       /\ <<"@" \o villain_def.character_class_name>> \in DOMAIN villain_archetypes
    THEN <<ATRef("villain_archetypes", <<"@" \o villain_def.character_class_name>>)>>
    ELSE <<>>

\* Returns [e, g]: the parameter with its power_refs filled, the graph marked.
copy_powers_to_entcreate(g, e, held) ==
    IF e.villain_def = None THEN [e |-> e, g |-> g]
    ELSE LET villain_def == villains[e.villain_def]
             added == Flatten([i \in 1..Len(villain_def.powers) |->
                                  PowerRefNames(g, villain_def.powers[i])])
             e1 == [e EXCEPT !.power_refs = @ \o added]
         IN  [e |-> e1,
              g |-> MarkAll(g, e1.power_refs, EntityArchetypes(villain_def), held)]

\* Mutant of mark_powers_in_power_param: the current power's own name is marked too.
mark_powers_in_power_param_NoSkip(g, power_param, current_power_name, ats, held) ==
    MarkAll(g, power_param.ppch_power_names, ats, held)

mark_powers_in_power_param(g, power_param, current_power_name, ats, held) ==
    MarkAll(g,
            SelectSeq(power_param.ppch_power_names, LAMBDA n : n # current_power_name),
            ats, held)

(***************************************************************************)
(* resolve_entity_defs_and_power_grants.                                   *)
(***************************************************************************)
SetParam(g, k, i, j, param) ==
    [g EXCEPT !.powers[k].pp_effects[i].pp_templates[j].p_params = param]

\* Mutant of LatchParam: the parameter is neither latched nor counted.
LatchParam_Forget(g, k, i, j) == g

\* e.resolved = true / p.resolved = true; count_resolved += 1 (not reached after a panic).
LatchParam(g, k, i, j) ==
    IF g.ok
    THEN [g EXCEPT !.powers[k].pp_effects[i].pp_templates[j].p_params.resolved = TRUE,
                   !.count = @ + 1]
    ELSE g

\* Store what copy_powers_to_entcreate returned.
StoreEntCreate(r, k, i, j) == SetParam(r.g, k, i, j, r.e)

\* Mutant of ResolveEntCreate: a parameter whose entity def is not found is
\* left unlatched and uncounted.
ResolveEntCreate_SkipMissing(g, k, i, j) ==
    LET e == g.powers[k].pp_effects[i].pp_templates[j].p_params IN
    IF e.pch_entity_def # None /\ e.pch_entity_def \in DOMAIN villains
    THEN LatchParam(StoreEntCreate(
                        copy_powers_to_entcreate(g, [e EXCEPT !.villain_def = e.pch_entity_def], k),
                        k, i, j),
                    k, i, j)
    ELSE g

ResolveEntCreate(g, k, i, j) ==
    LET e == g.powers[k].pp_effects[i].pp_templates[j].p_params IN
    IF e.pch_entity_def # None /\ e.pch_entity_def \in DOMAIN villains
    THEN LatchParam(StoreEntCreate(
                        copy_powers_to_entcreate(g, [e EXCEPT !.villain_def = e.pch_entity_def], k),
                        k, i, j),
                    k, i, j)
    ELSE LatchParam(g, k, i, j)

ResolvePowerParam(g, k, i, j) ==
    LatchParam(mark_powers_in_power_param(g, g.powers[k].pp_effects[i].pp_templates[j].p_params,
                                          g.powers[k].pch_full_name, g.powers[k].archetypes, k),
               k, i, j)

\* The match on one template's p_params.
VisitParam(g, k, i, j) ==
    LET param == g.powers[k].pp_effects[i].pp_templates[j].p_params IN
    IF param.kind = "EntCreate" /\ ~param.resolved THEN ResolveEntCreate(g, k, i, j)
    ELSE IF param.kind = "Power" /\ ~param.resolved THEN ResolvePowerParam(g, k, i, j)
    ELSE g

RECURSIVE VisitTemplates(_, _, _, _)
VisitTemplates(g, k, i, j) ==
    IF ~g.ok \/ j > Len(g.powers[k].pp_effects[i].pp_templates) THEN g
    ELSE VisitTemplates(VisitParam(g, k, i, j), k, i, j + 1)

RECURSIVE VisitEffects(_, _, _)
VisitEffects(g, k, i) ==
    IF ~g.ok \/ i > Len(g.powers[k].pp_effects) THEN g
    ELSE VisitEffects(VisitTemplates(g, k, i, 1), k, i + 1)

\* Mutant of VisitGrants: the parameters of a power are resolved whether the
\* power is included or not.
VisitGrants_AnyPower(g, k) == VisitEffects(g, k, 1)

\* The body of the loop over powers.values() for the power keyed k.
VisitGrants(g, k) ==
    IF g.powers[k].include_in_output THEN VisitEffects(g, k, 1) ELSE g

RECURSIVE resolve_entity_defs_and_power_grants(_, _)
resolve_entity_defs_and_power_grants(g, order) ==
    IF order = <<>> \/ ~g.ok THEN g
    ELSE resolve_entity_defs_and_power_grants(VisitGrants(g, Head(order)), Tail(order))

(***************************************************************************)
(* read_powercats_bin: the top-level allow-list.                           *)
(***************************************************************************)
MarkTopLevel(cats) ==
    IF Len(config.power_categories) > 0
    THEN [c \in DOMAIN cats |->
             IF Contains(config.power_categories, cats[c].pch_name)
             THEN [cats[c] EXCEPT !.top_level = TRUE]
             ELSE cats[c]]
    ELSE [c \in DOMAIN cats |-> [cats[c] EXCEPT !.top_level = TRUE]]

top_level_count(cats) == Cardinality({c \in DOMAIN cats : cats[c].top_level})

\* Mutant of FilteredThemAll: the top-level categories are counted before they are marked.
FilteredThemAll_CountFirst(cats) ==
    Len(config.power_categories) > 0 /\ top_level_count(cats) = 0

\* process::exit(1) is reached.
FilteredThemAll(cats) ==
    Len(config.power_categories) > 0 /\ top_level_count(MarkTopLevel(cats)) = 0

(***************************************************************************)
(* match_archetypes_to_power_categories.                                   *)
(***************************************************************************)
\* Mutant of PushArchetype: a match that is neither primary nor secondary
\* makes the category Primary.
PushArchetype_KeepSetsPrimary(cats, name, at, pri_sec) ==
    IF name # None /\ name \in DOMAIN cats
    THEN [cats EXCEPT ![name].archetypes = Append(@, at),
                      ![name].pri_sec = IF pri_sec = "Keep" THEN "Primary" ELSE pri_sec]
    ELSE cats

\* find_power_category and the push that follows a successful lookup;
\* pri_sec is "Primary", "Secondary" or "Keep" (the slot leaves pri_sec alone).
PushArchetype(cats, name, at, pri_sec) ==
    IF name # None /\ name \in DOMAIN cats
    THEN [cats EXCEPT ![name].archetypes = Append(@, at),
                      ![name].pri_sec = IF pri_sec = "Keep" THEN @ ELSE pri_sec]
    ELSE cats

\* Mutant of PushGlobal: only the first entry of the global list is looked up.
PushGlobal_FirstOnly(cats, names, at) ==
    IF names = <<>> THEN cats
    ELSE PushArchetype(cats, Head(names), at, "Keep")

RECURSIVE PushGlobal(_, _, _)
PushGlobal(cats, names, at) ==
    IF names = <<>> THEN cats
    ELSE PushGlobal(PushArchetype(cats, Head(names), at, "Keep"), Tail(names), at)

\* Mutant of MatchArchetype: the secondary slot is looked up before the primary.
MatchArchetype_SecondaryFirst(cats, a) ==
    LET at == ATRef("archetypes", a)
        c1 == PushArchetype(cats, archetypes[a].pch_secondary_category, at, "Secondary")
        c2 == PushArchetype(c1, archetypes[a].pch_primary_category, at, "Primary")
        c3 == PushArchetype(c2, archetypes[a].pch_epic_pool_category, at, "Keep")
        c4 == PushArchetype(c3, archetypes[a].pch_power_pool_category, at, "Keep")
    IN  PushGlobal(c4, config.global_categories, at)

\* The body of the loop over archetypes.values() for the archetype keyed a.
MatchArchetype(cats, a) ==
    LET at == ATRef("archetypes", a)
        c1 == PushArchetype(cats, archetypes[a].pch_primary_category, at, "Primary")
        c2 == PushArchetype(c1, archetypes[a].pch_secondary_category, at, "Secondary")
        c3 == PushArchetype(c2, archetypes[a].pch_epic_pool_category, at, "Keep")
        c4 == PushArchetype(c3, archetypes[a].pch_power_pool_category, at, "Keep")
    IN  PushGlobal(c4, config.global_categories, at)

RECURSIVE match_archetypes_to_power_categories(_, _)
match_archetypes_to_power_categories(cats, order) ==
    IF order = <<>> THEN cats
    ELSE match_archetypes_to_power_categories(MatchArchetype(cats, Head(order)), Tail(order))

(***************************************************************************)
(* The power-set filter and the two linking steps of load_powers_dictionary*)
(***************************************************************************)
\* NameKey::partial_match: the filter's segments are a prefix of the name's,
\* a wildcard segment matching any segment.
partial_match(name, filter) ==
    /\ Len(filter) <= Len(name)
    /\ \A i \in 1..Len(filter) : is_wildcard(filter[i]) \/ filter[i] = name[i]

\* Mutant of RetainPowerSets: every power set is retained.
RetainPowerSets_KeepAll(sets) == sets

RetainPowerSets(sets) ==
    LET kept == {s \in DOMAIN sets :
                    ~\E i \in 1..Len(config.filter_powersets) :
                        partial_match(s, config.filter_powersets[i])}
    IN  [s \in kept |-> sets[s]]

\* Mutant of Found: the records found are pushed to the front of the list.
Found_Reversed(names, table) ==
    LET found == SelectSeq(names, LAMBDA n : n \in DOMAIN table)
    IN  [i \in 1..Len(found) |-> found[Len(found) + 1 - i]]

\* The records of table found for names, in the order of names.
Found(names, table) == SelectSeq(names, LAMBDA n : n \in DOMAIN table)

LinkPowersIntoSets(sets, pwrs) ==
    [s \in DOMAIN sets |->
        [sets[s] EXCEPT !.pp_powers = @ \o Found(sets[s].pp_power_names, pwrs)]]

LinkSetsIntoCategories(cats, sets) ==
    [c \in DOMAIN cats |->
        [cats[c] EXCEPT !.pp_power_sets = @ \o Found(cats[c].ppch_power_set_names, sets)]]

(***************************************************************************)
(* The top-level cascade of load_powers_dictionary.                        *)
(***************************************************************************)
\* Mutant of CascadePowers: the powers are included and keep their archetypes.
RECURSIVE CascadePowers_KeepArchetypes(_, _, _)
CascadePowers_KeepArchetypes(pwrs, refs, ats) ==
    IF refs = <<>> THEN pwrs
    ELSE CascadePowers_KeepArchetypes([pwrs EXCEPT ![Head(refs)].include_in_output = TRUE],
                                      Tail(refs), ats)

RECURSIVE CascadePowers(_, _, _)
CascadePowers(pwrs, refs, ats) ==
    IF refs = <<>> THEN pwrs
    ELSE CascadePowers([pwrs EXCEPT ![Head(refs)].include_in_output = TRUE,
                                    ![Head(refs)].archetypes = ats],
                       Tail(refs), ats)

AnyIncluded(refs, table) == \E i \in 1..Len(refs) : table[refs[i]].include_in_output

\* Mutant of CascadeSet: the set is included whether it has a linked power or not.
CascadeSet_AlwaysIncluded(g, c, s) ==
    [g EXCEPT !.powers = CascadePowers(g.powers, g.sets[s].pp_powers, g.cats[c].archetypes),
              !.sets[s].include_in_output = TRUE]

CascadeSet(g, c, s) ==
    LET pwrs == CascadePowers(g.powers, g.sets[s].pp_powers, g.cats[c].archetypes)
    IN  [g EXCEPT !.powers = pwrs,
                  !.sets[s].include_in_output = AnyIncluded(g.sets[s].pp_powers, pwrs)]

RECURSIVE CascadeSets(_, _, _)
CascadeSets(g, c, refs) ==
    IF refs = <<>> THEN g
    ELSE CascadeSets(CascadeSet(g, c, Head(refs)), c, Tail(refs))

\* Mutant of CascadeCategory: a top-level category with no included set stays top-level.
CascadeCategory_NoDemote(g, c) ==
    IF g.cats[c].top_level
    THEN LET g1 == CascadeSets(g, c, g.cats[c].pp_power_sets)
         IN  [g1 EXCEPT !.cats[c].include_in_output =
                            AnyIncluded(g1.cats[c].pp_power_sets, g1.sets)]
    ELSE g

\* Mutant of CascadeCategory: top_level is recomputed, include_in_output is not.
CascadeCategory_TopLevelOnly(g, c) ==
    IF g.cats[c].top_level
    THEN LET g1 == CascadeSets(g, c, g.cats[c].pp_power_sets)
         IN  [g1 EXCEPT !.cats[c].top_level =
                            AnyIncluded(g1.cats[c].pp_power_sets, g1.sets)]
    ELSE g

CascadeCategory(g, c) ==
    IF g.cats[c].top_level
    THEN LET g1 == CascadeSets(g, c, g.cats[c].pp_power_sets)
             inc == AnyIncluded(g1.cats[c].pp_power_sets, g1.sets)
         IN  [g1 EXCEPT !.cats[c].include_in_output = inc, !.cats[c].top_level = inc]
    ELSE g

RECURSIVE CascadeTopLevel(_, _)
CascadeTopLevel(g, order) ==
    IF order = <<>> THEN g
    ELSE CascadeTopLevel(CascadeCategory(g, Head(order)), Tail(order))

(***************************************************************************)
(* fix_data_in_power_hierarchy.                                            *)
(***************************************************************************)
FixFree(power, pcat_name) ==
    IF pcat_name = <<"Prestige">>
    THEN [power EXCEPT !.b_free = TRUE, !.i_force_level_bought = 0]
    ELSE IF pcat_name = <<"Inherent">> \/ power.pch_name = "Inherent"
    THEN [power EXCEPT !.b_free = TRUE, !.b_auto_issue = TRUE]
    ELSE IF pcat_name = <<"Incarnate">>
    THEN [power EXCEPT !.b_free = TRUE]
    ELSE power

\* Mutant of FixTemporary: pe_boosts_allowed is cleared whatever the type of the power.
FixTemporary_ClearAlways(power, pcat_name) ==
    IF pcat_name = <<"Temporary_Powers">>
    THEN [power EXCEPT !.b_free = TRUE, !.i_max_boosts = 0, !.pe_boosts_allowed = <<>>]
    ELSE power

FixTemporary(power, pcat_name) ==
    IF pcat_name = <<"Temporary_Powers">>
    THEN [power EXCEPT !.b_free = TRUE,
                       !.i_max_boosts = 0,
                       !.pe_boosts_allowed =
                           IF power.e_type \in {"kPowerType_Boost", "kPowerType_GlobalBoost"}
                           THEN @ ELSE <<>>]
    ELSE power

FixPower(power, pcat_name) == FixTemporary(FixFree(power, pcat_name), pcat_name)

RECURSIVE FixPowers(_, _, _)
FixPowers(pwrs, refs, pcat_name) ==
    IF refs = <<>> THEN pwrs
    ELSE FixPowers([pwrs EXCEPT ![Head(refs)] = FixPower(@, pcat_name)], Tail(refs), pcat_name)

RECURSIVE FixSets(_, _, _)
FixSets(pwrs, refs, pcat_name) ==
    IF refs = <<>> THEN pwrs
    ELSE FixSets(FixPowers(pwrs, power_sets[Head(refs)].pp_powers, pcat_name),
                 Tail(refs), pcat_name)

RECURSIVE fix_data_in_power_hierarchy(_, _)
fix_data_in_power_hierarchy(pwrs, cats) ==
    IF cats = <<>> THEN pwrs
    ELSE fix_data_in_power_hierarchy(
             IF power_categories[Head(cats)].top_level
             THEN FixSets(pwrs, power_categories[Head(cats)].pp_power_sets,
                          power_categories[Head(cats)].pch_name)
             ELSE pwrs,
             Tail(cats))

(***************************************************************************)
(* RootOutput::from_power_categories: the categories the root index lists, *)
(* in the order of power_categories_returned.                              *)
(***************************************************************************)
from_power_categories(returned, cats) ==
    SelectSeq(returned, LAMBDA c : ~(~cats[c].top_level \/ ~cats[c].include_in_output))

(***************************************************************************)
(* write_powers_dictionary: what the writer of the raw output reaches.  It *)
(* descends the categories of power_categories_returned, the power sets    *)
(* linked in each and the powers linked in each set, and goes on at each   *)
(* level for the records with include_in_output only.                      *)
(***************************************************************************)
write_powers_dictionary(returned, cats, sets, pwrs) ==
    LET written_cats == {c \in Range(returned) : cats[c].include_in_output}
        written_sets == {s \in UNION {Range(cats[c].pp_power_sets) : c \in written_cats} :
                            sets[s].include_in_output}
        written_powers == {k \in UNION {Range(sets[s].pp_powers) : s \in written_sets} :
                              pwrs[k].include_in_output}
    IN  [categories |-> written_cats, sets |-> written_sets, powers |-> written_powers]

(***************************************************************************)
(* The run of load_powers_dictionary.                                      *)
(***************************************************************************)
Graph == [cats |-> power_categories, sets |-> power_sets, powers |-> powers,
          count |-> 0, ok |-> TRUE]

\* read_powercats_bin: mark the top-level categories, exit when none is left.
ReadPowercatsBin ==
    /\ pc = "read_powercats"
    /\ power_categories' = MarkTopLevel(power_categories)
    /\ pc' = IF FilteredThemAll(power_categories) THEN "exited" ELSE "match"
    /\ UNCHANGED <<inputs, power_sets, powers, power_categories_returned, count,
                   passes, run, snapshot>>

MatchArchetypes ==
    /\ pc = "match"
    /\ \E order \in Orders(DOMAIN archetypes) :
           power_categories' = match_archetypes_to_power_categories(power_categories, order)
    /\ pc' = "filter"
    /\ UNCHANGED <<inputs, power_sets, powers, power_categories_returned, count,
                   passes, run, snapshot>>

FilterPowerSets ==
    /\ pc = "filter"
    /\ power_sets' = RetainPowerSets(power_sets)
    /\ pc' = "link_powers"
    /\ UNCHANGED <<inputs, power_categories, powers, power_categories_returned, count,
                   passes, run, snapshot>>

LinkPowers ==
    /\ pc = "link_powers"
    /\ power_sets' = LinkPowersIntoSets(power_sets, powers)
    /\ pc' = "link_sets"
    /\ UNCHANGED <<inputs, power_categories, powers, power_categories_returned, count,
                   passes, run, snapshot>>

LinkPowerSets ==
    /\ pc = "link_sets"
    /\ power_categories' = LinkSetsIntoCategories(power_categories, power_sets)
    /\ pc' = "cascade"
    /\ UNCHANGED <<inputs, power_sets, powers, power_categories_returned, count,
                   passes, run, snapshot>>

\* power_categories_returned is collected, then the top-level cascade runs over it.
Cascade ==
    /\ pc = "cascade"
    /\ \E order \in Orders(DOMAIN power_categories) :
           \E g \in {CascadeTopLevel(Graph, order)} :
           /\ power_categories_returned' = order
           /\ power_categories' = g.cats
           /\ power_sets' = g.sets
           /\ powers' = g.powers
    /\ pc' = "resolve_entity_defs"
    /\ UNCHANGED <<inputs, count, passes, run, snapshot>>

\* First half of one iteration of the loop.
ResolveEntityDefs ==
    /\ pc = "resolve_entity_defs"
    /\ \E order \in Orders(DOMAIN powers) :
           \E g \in {resolve_entity_defs_and_power_grants(Graph, order)} :
           /\ power_categories' = g.cats
           /\ power_sets' = g.sets
           /\ powers' = g.powers
           /\ count' = g.count
           /\ pc' = IF g.ok THEN "resolve_redirects" ELSE "panicked"
    /\ passes' = passes + 1
    /\ UNCHANGED <<inputs, power_categories_returned, run, snapshot>>

\* Mutant of ResolveRedirects: the loop is left after its first iteration,
\* whatever the count.
ResolveRedirects_BreakAlways ==
    /\ pc = "resolve_redirects"
    /\ \E order \in Orders(DOMAIN powers) :
           \E g \in {resolve_power_redirects(Graph, order)} :
           /\ power_categories' = g.cats
           /\ power_sets' = g.sets
           /\ powers' = g.powers
           /\ count' = count + g.count
           /\ pc' = IF ~g.ok THEN "panicked" ELSE "fixups"
    /\ UNCHANGED <<inputs, power_categories_returned, passes, run, snapshot>>

\* Second half of one iteration of the loop, and the test of count.
ResolveRedirects ==
    /\ pc = "resolve_redirects"
    /\ \E order \in Orders(DOMAIN powers) :
           \E g \in {resolve_power_redirects(Graph, order)} :
           /\ power_categories' = g.cats
           /\ power_sets' = g.sets
           /\ powers' = g.powers
           /\ count' = count + g.count
           /\ pc' = IF ~g.ok THEN "panicked"
                    ELSE IF count + g.count = 0 THEN "fixups"
                    ELSE "resolve_entity_defs"
    /\ UNCHANGED <<inputs, power_categories_returned, passes, run, snapshot>>

FixData ==
    /\ pc = "fixups"
    /\ powers' = fix_data_in_power_hierarchy(powers, power_categories_returned)
    /\ pc' = "done"
    /\ UNCHANGED <<inputs, power_categories, power_sets, power_categories_returned,
                   count, passes, run, snapshot>>

Next ==
    \/ ReadPowercatsBin
    \/ MatchArchetypes
    \/ FilterPowerSets
    \/ LinkPowers
    \/ LinkPowerSets
    \/ Cascade
    \/ ResolveEntityDefs
    \/ ResolveRedirects
    \/ FixData

(***************************************************************************)
(* Records as the binary readers produce them (Default::default() for the  *)
(* fields the readers do not set).                                         *)
(***************************************************************************)
NewPowerCategory(name, set_names) ==
    [pch_name |-> <<name>>, ppch_power_set_names |-> set_names, pp_power_sets |-> <<>>,
     archetypes |-> <<>>, pri_sec |-> "None", include_in_output |-> FALSE,
     top_level |-> FALSE]

NewBasePowerSet(full_name, power_names) ==
    [pch_full_name |-> full_name, pp_power_names |-> power_names, pp_powers |-> <<>>,
     include_in_output |-> FALSE]

NewBasePower(full_name, redirects, effects) ==
    [pch_name |-> full_name[3], pch_full_name |-> full_name, e_type |-> "kPowerType_Click",
     pp_redirect |-> redirects, pp_effects |-> effects,
     b_free |-> FALSE, b_auto_issue |-> FALSE, i_force_level_bought |-> -1,
     i_max_boosts |-> 5, pe_boosts_allowed |-> <<"Damage">>,
     include_in_output |-> FALSE, archetypes |-> <<>>, redirects_resolved |-> FALSE]

NewPowerRedirect(name) == [pch_name |-> name]

NewEntCreate(entity_def) ==
    [kind |-> "EntCreate", pch_entity_def |-> entity_def, villain_def |-> None,
     power_refs |-> <<>>, ppch_power_names |-> <<>>, resolved |-> FALSE]

NewPowerParam(power_names) ==
    [kind |-> "Power", pch_entity_def |-> None, villain_def |-> None,
     power_refs |-> <<>>, ppch_power_names |-> power_names, resolved |-> FALSE]

NewTemplate(param) == [p_params |-> param]

NewEffectGroup(templates, children) == [pp_templates |-> templates, pp_effects |-> children]

NewArchetype(primary, secondary, epic_pool, power_pool) ==
    [pch_primary_category |-> primary, pch_secondary_category |-> secondary,
     pch_epic_pool_category |-> epic_pool, pch_power_pool_category |-> power_pool]

NewVillainDef(class_name, power_refs) ==
    [character_class_name |-> class_name, powers |-> power_refs]

NewPowerRef(category, set, power) ==
    [power_category |-> category, power_set |-> set, power |-> power]

(***************************************************************************)
(* The input tables of the checked runs.                                   *)
(***************************************************************************)
TEMP == "Temporary_Powers"
PETS == "Villain_Pets"
JETPACK == <<TEMP, "Gadgets", "Jetpack">>
RAYGUN == <<TEMP, "Gadgets", "Raygun">>
BITE == <<PETS, "Wolf", "Bite">>
HOWL == <<PETS, "Wolf", "Howl">>
\* Named by references, in no table.
GHOST == <<PETS, "Wolf", "Ghost">>
PET_WOLF == <<"Pet_Wolf">>
PET_MISSING == <<"Pet_Missing">>

PowerKeys == {JETPACK, RAYGUN, BITE, HOWL}

\* The references between records a run may hold: redirects, Power
\* parameters and EntCreate parameters of an effect group of the power, and
\* Power parameters of a child effect group ("child_power").
Ref(src, kind, target) == [src |-> src, kind |-> kind, target |-> target]

RefUniverse ==
    << Ref(JETPACK, "redirect", RAYGUN), Ref(JETPACK, "redirect", BITE),
       Ref(JETPACK, "redirect", GHOST),  Ref(JETPACK, "redirect", JETPACK),
       Ref(JETPACK, "redirect", None),
       Ref(BITE, "redirect", HOWL),      Ref(BITE, "redirect", JETPACK),
       Ref(RAYGUN, "redirect", HOWL),    Ref(RAYGUN, "redirect", GHOST),
       Ref(HOWL, "redirect", BITE),
       Ref(JETPACK, "power", JETPACK),   Ref(JETPACK, "power", BITE),
       Ref(BITE, "power", HOWL),
       Ref(JETPACK, "entcreate", PET_WOLF), Ref(JETPACK, "entcreate", PET_MISSING),
       Ref(RAYGUN, "entcreate", PET_WOLF),
       Ref(BITE, "entcreate", PET_WOLF),
       Ref(JETPACK, "child_power", BITE) >>

\* At most this many references in the tables of one run.
MaxRefs == 3

RefChoices == {S \in SUBSET (1..Len(RefUniverse)) : Cardinality(S) <= MaxRefs}

\* The targets of the chosen references of one kind leaving src, in the order of RefUniverse.
Targets(chosen, src, kind) ==
    LET picked == SelectSeq([i \in 1..Len(RefUniverse) |-> i],
                            LAMBDA i : /\ i \in chosen
                                       /\ RefUniverse[i].src = src
                                       /\ RefUniverse[i].kind = kind)
    IN  [i \in 1..Len(picked) |-> RefUniverse[picked[i]].target]

TemplatesOf(chosen, src) ==
    LET names == Targets(chosen, src, "power")
        defs == Targets(chosen, src, "entcreate")
    IN  (IF names = <<>> THEN <<>> ELSE <<NewTemplate(NewPowerParam(names))>>)
        \o [i \in 1..Len(defs) |-> NewTemplate(NewEntCreate(defs[i]))]

\* The child effect groups of src's effect group: one, holding a Power
\* parameter, when a "child_power" reference is chosen.
ChildEffectsOf(chosen, src) ==
    LET names == Targets(chosen, src, "child_power")
    IN  IF names = <<>> THEN <<>>
        ELSE <<NewEffectGroup(<<NewTemplate(NewPowerParam(names))>>, <<>>)>>

PowerWith(chosen, k) ==
    LET redirects == Targets(chosen, k, "redirect")
        templates == TemplatesOf(chosen, k)
        children == ChildEffectsOf(chosen, k)
    IN  NewBasePower(k,
                     [i \in 1..Len(redirects) |-> NewPowerRedirect(redirects[i])],
                     IF templates = <<>> /\ children = <<>> THEN <<>>
                     ELSE <<NewEffectGroup(templates, children)>>)

AllowLists == { <<>>, << <<"Missing">>, <<TEMP>> >>, << <<"Missing">> >> }

BaseCategories ==
    (<<TEMP>> :> NewPowerCategory(TEMP, << <<TEMP, "Gadgets">>, <<TEMP, "Gone">> >>))
    @@ (<<PETS>> :> NewPowerCategory(PETS, << <<PETS, "Wolf">> >>))

BasePowerSets ==
    (<<TEMP, "Gadgets">> :> NewBasePowerSet(<<TEMP, "Gadgets">>, <<JETPACK>>))
    @@ (<<PETS, "Wolf">> :> NewBasePowerSet(<<PETS, "Wolf">>, <<BITE, GHOST, HOWL>>))

BaseArchetypes ==
    <<"Class_Blaster">> :> NewArchetype(<<TEMP>>, None, <<"Missing">>, None)

BaseVillainArchetypes ==
    <<"@Class_Pet">> :> NewArchetype(None, None, None, None)

BaseVillains ==
    PET_WOLF :> NewVillainDef("Class_Pet", <<NewPowerRef(PETS, "Wolf", WILDCARD)>>)

InitRun ==
    /\ power_categories_returned = <<>>
    /\ pc = "read_powercats"
    /\ count = 0
    /\ passes = 0
    /\ run = 1
    /\ snapshot = None

Init ==
    /\ \E allow \in AllowLists :
           config = [power_categories |-> allow, filter_powersets |-> <<>>,
                     global_categories |-> <<>>]
    /\ archetypes = BaseArchetypes
    /\ villain_archetypes = BaseVillainArchetypes
    /\ villains = BaseVillains
    /\ power_categories = BaseCategories
    /\ power_sets = BasePowerSets
    /\ \E chosen \in RefChoices : powers = [k \in PowerKeys |-> PowerWith(chosen, k)]
    /\ InitRun

Spec == Init /\ [][Next]_vars

(***************************************************************************)
(* The loop run a second time over the graph its first run left: the test  *)
(* of idempotence.                                                         *)
(***************************************************************************)
RunLoopAgain ==
    /\ pc = "fixups"
    /\ run = 1
    /\ run' = 2
    /\ snapshot' = <<power_categories, power_sets, powers>>
    /\ passes' = 0
    /\ pc' = "resolve_entity_defs"
    /\ UNCHANGED <<inputs, power_categories, power_sets, powers,
                   power_categories_returned, count>>

NextRerun ==
    \/ Next
    \/ RunLoopAgain

SpecRerun == Init /\ [][NextRerun]_vars

(***************************************************************************)
(* Runs over tables that vary what the assembly steps read: the category   *)
(* slots of two archetypes, the global category list, the allow-list, the  *)
(* power-set filter, the type of a power and the presence of a power.  No  *)
(* power of these tables refers to another.                                *)
(***************************************************************************)
PRESTIGE == "Prestige"
INHERENT == "Inherent"
TEMP_INHERENT == <<TEMP, "Gadgets", "Inherent">>
SPRINT == <<PRESTIGE, "Travel", "Sprint">>
REST == <<INHERENT, "Basics", "Rest">>

AssemblyCategories ==
    (<<TEMP>> :> NewPowerCategory(TEMP, << <<TEMP, "Gadgets">>, <<TEMP, "Gone">> >>))
    @@ (<<PRESTIGE>> :> NewPowerCategory(PRESTIGE, << <<PRESTIGE, "Travel">> >>))
    @@ (<<INHERENT>> :> NewPowerCategory(INHERENT, << <<INHERENT, "Basics">> >>))

AssemblyPowerSets ==
    (<<TEMP, "Gadgets">> :> NewBasePowerSet(<<TEMP, "Gadgets">>, <<JETPACK, TEMP_INHERENT>>))
    @@ (<<PRESTIGE, "Travel">> :> NewBasePowerSet(<<PRESTIGE, "Travel">>, <<SPRINT>>))
    @@ (<<INHERENT, "Basics">> :> NewBasePowerSet(<<INHERENT, "Basics">>, <<REST>>))

\* The type of Jetpack and whether Rest is in the power table.
AssemblyPowerVariants ==
    { [e_type |-> "kPowerType_Click", rest |-> TRUE],
      [e_type |-> "kPowerType_Boost", rest |-> FALSE],
      [e_type |-> "kPowerType_GlobalBoost", rest |-> TRUE] }

AssemblyPowers(variant) ==
    LET keys == {JETPACK, TEMP_INHERENT, SPRINT} \cup (IF variant.rest THEN {REST} ELSE {})
    IN  [k \in keys |->
            IF k = JETPACK
            THEN [NewBasePower(k, <<>>, <<>>) EXCEPT !.e_type = variant.e_type]
            ELSE NewBasePower(k, <<>>, <<>>)]

\* The allow-list and the power-set filter of a run.
AssemblyFilters ==
    { [allow |-> <<>>, filter |-> <<>>],
      [allow |-> <<>>, filter |-> << <<PRESTIGE>> >>],
      [allow |-> << <<PRESTIGE>> >>, filter |-> <<>>] }

AssemblyGlobals == { <<>>, << <<TEMP>>, <<"Missing">>, <<INHERENT>>, <<TEMP>> >> }

\* Class_Blaster's four slots and Class_Tank's primary and secondary slots.
AssemblyArchetypes ==
    { (<<"Class_Blaster">> :> NewArchetype(p, s, eo[1], eo[2]))
      @@ (<<"Class_Tank">> :> NewArchetype(t[1], t[2], None, None)) :
        p \in {None, <<TEMP>>, <<PRESTIGE>>},
        s \in {None, <<TEMP>>, <<PRESTIGE>>},
        eo \in { <<None, None>>, << <<TEMP>>, <<"Missing">> >>, << <<"Missing">>, <<TEMP>> >> },
        t \in { << <<TEMP>>, None >>, << None, <<TEMP>> >> } }

InitAssembly ==
    /\ \E f \in AssemblyFilters, globals \in AssemblyGlobals :
           config = [power_categories |-> f.allow, filter_powersets |-> f.filter,
                     global_categories |-> globals]
    /\ archetypes \in AssemblyArchetypes
    /\ villain_archetypes = BaseVillainArchetypes
    /\ villains = BaseVillains
    /\ power_categories = AssemblyCategories
    /\ power_sets = AssemblyPowerSets
    /\ \E variant \in AssemblyPowerVariants : powers = AssemblyPowers(variant)
    /\ InitRun

SpecAssembly == InitAssembly /\ [][Next]_vars

(***************************************************************************)
(* Single calls of mark_power_for_inclusion and of                         *)
(* resolve_entity_defs_and_power_grants, on graphs as the loop meets them: *)
(* linked, with Jetpack included and holding one parameter, and with the   *)
(* category Villain_Pets, the set Wolf and the powers Bite and Howl each   *)
(* present or not.  snapshot keeps the arguments of the call and the graph *)
(* before it.                                                              *)
(***************************************************************************)
PET_BAT == <<"Pet_Bat">>
PET_RAT == <<"Pet_Rat">>
PET_CAT == <<"Pet_Cat">>

CallVillains ==
    (PET_WOLF :> NewVillainDef("Class_Pet", <<NewPowerRef(PETS, "Wolf", WILDCARD)>>))
    @@ (PET_BAT :> NewVillainDef(NoString, <<NewPowerRef(PETS, "Wolf", "Bite"),
                                             NewPowerRef(PETS, "Wolf", "Ghost")>>))
    @@ (PET_RAT :> NewVillainDef("Class_Unknown", <<NewPowerRef(PETS, "Wolf", "Howl"),
                                                    NewPowerRef(PETS, "Wolf", WILDCARD)>>))
    @@ (PET_CAT :> NewVillainDef("Class_Pet", <<NewPowerRef(PETS, "Wolf", "Howl")>>))

\* The parameter of Jetpack's template.
CallParams ==
    { NewPowerParam(<<JETPACK, BITE, GHOST>>),
      NewPowerParam(<<HOWL, BITE>>),
      [NewPowerParam(<<BITE>>) EXCEPT !.resolved = TRUE],
      NewEntCreate(None),
      NewEntCreate(PET_MISSING),
      NewEntCreate(PET_WOLF),
      NewEntCreate(PET_BAT),
      NewEntCreate(PET_RAT),
      NewEntCreate(PET_CAT) }

BLASTER == ATRef("archetypes", <<"Class_Blaster">>)
CLASS_PET == ATRef("villain_archetypes", <<"@Class_Pet">>)

\* Bite as a call may find it: untouched, or included by an earlier call.
BiteVariants ==
    { [include_in_output |-> FALSE, archetypes |-> <<>>, redirects_resolved |-> FALSE],
      [include_in_output |-> TRUE, archetypes |-> <<CLASS_PET>>, redirects_resolved |-> TRUE],
      [include_in_output |-> TRUE, archetypes |-> <<BLASTER, CLASS_PET>>,
       redirects_resolved |-> FALSE] }

CallPowers(present, bite, jetpack_archetypes, param) ==
    [k \in {JETPACK} \cup present |->
        IF k = JETPACK
        THEN [NewBasePower(k, <<>>, <<NewEffectGroup(<<NewTemplate(param)>>, <<>>)>>)
                 EXCEPT !.include_in_output = TRUE, !.archetypes = jetpack_archetypes]
        ELSE IF k = BITE
        THEN [NewBasePower(k, <<>>, <<>>)
                 EXCEPT !.include_in_output = bite.include_in_output,
                        !.archetypes = bite.archetypes,
                        !.redirects_resolved = bite.redirects_resolved]
        ELSE NewBasePower(k, <<>>, <<>>)]

\* The keys and the inheriting archetype lists a call of mark_power_for_inclusion is given.
MarkRefs == {BITE, HOWL, GHOST, <<"Missing", "Wolf", "Bite">>}

MarkArchetypes == { <<>>, <<BLASTER>>, <<CLASS_PET, BLASTER, CLASS_PET>> }

InitCalls ==
    /\ config = [power_categories |-> <<>>, filter_powersets |-> <<>>,
                 global_categories |-> <<>>]
    /\ archetypes = BaseArchetypes
    /\ villain_archetypes = BaseVillainArchetypes
    /\ villains = CallVillains
    /\ \E cats \in {{<<TEMP>>}, {<<TEMP>>, <<PETS>>}},
          sets \in {{<<TEMP, "Gadgets">>}, {<<TEMP, "Gadgets">>, <<PETS, "Wolf">>}},
          present \in SUBSET {BITE, HOWL},
          bite \in BiteVariants,
          jetpack_archetypes \in {<<>>, <<BLASTER>>},
          param \in CallParams :
           /\ BITE \notin present => bite.include_in_output = FALSE
           /\ powers = CallPowers(present, bite, jetpack_archetypes, param)
           /\ power_sets = LinkPowersIntoSets([s \in sets |-> BasePowerSets[s]], powers)
           /\ power_categories =
                  LinkSetsIntoCategories(
                      [c \in cats |-> [BaseCategories[c] EXCEPT !.top_level = (c = <<TEMP>>),
                                                                !.include_in_output = (c = <<TEMP>>)]],
                      power_sets)
    /\ power_categories_returned = <<>>
    /\ pc = "call"
    /\ count = 0
    /\ passes = 0
    /\ run = 1
    /\ snapshot = None

\* One call of mark_power_for_inclusion, no power record being held.
CallMarkPowerForInclusion ==
    /\ pc = "call"
    /\ \E power_ref \in MarkRefs, ats \in MarkArchetypes :
           \E g \in {mark_power_for_inclusion(Graph, power_ref, ats, None)} :
           /\ power_categories' = g.cats
           /\ power_sets' = g.sets
           /\ powers' = g.powers
           /\ snapshot' = [call |-> "mark_power_for_inclusion", power_ref |-> power_ref,
                           archetypes |-> ats, g |-> Graph]
           /\ pc' = IF g.ok THEN "returned" ELSE "panicked"
    /\ UNCHANGED <<inputs, power_categories_returned, count, passes, run>>

\* One call of resolve_entity_defs_and_power_grants.
CallResolveEntityDefs ==
    /\ pc = "call"
    /\ \E order \in Orders(DOMAIN powers) :
           \E g \in {resolve_entity_defs_and_power_grants(Graph, order)} :
           /\ power_categories' = g.cats
           /\ power_sets' = g.sets
           /\ powers' = g.powers
           /\ count' = g.count
           /\ snapshot' = [call |-> "resolve_entity_defs_and_power_grants",
                           power_ref |-> None, archetypes |-> <<>>, g |-> Graph]
           /\ pc' = IF g.ok THEN "returned" ELSE "panicked"
    /\ UNCHANGED <<inputs, power_categories_returned, passes, run>>

NextCalls ==
    \/ CallMarkPowerForInclusion
    \/ CallResolveEntityDefs

SpecCalls == InitCalls /\ [][NextCalls]_vars

(***************************************************************************)
(* Runs with a power-set filter over the reference graph: Jetpack refers   *)
(* into the set Wolf of Villain_Pets by a redirect, a Power parameter or   *)
(* an EntCreate parameter whose entity def refers to Wolf by wildcard.     *)
(***************************************************************************)
FilteredRefs ==
    { Ref(JETPACK, "redirect", BITE), Ref(JETPACK, "power", BITE),
      Ref(JETPACK, "entcreate", PET_WOLF) }

FilteredRefChoices == SUBSET {i \in 1..Len(RefUniverse) : RefUniverse[i] \in FilteredRefs}

PowerSetFilters ==
    { <<>>,
      << <<PETS, "Wolf">> >>,
      << <<PETS>> >>,
      << <<"Missing">>, <<WILDCARD, "Wolf">> >>,
      << <<TEMP, "Gadgets">> >> }

InitFiltered ==
    /\ \E allow \in {<<>>, << <<TEMP>> >>}, filter \in PowerSetFilters :
           config = [power_categories |-> allow, filter_powersets |-> filter,
                     global_categories |-> <<>>]
    /\ archetypes = BaseArchetypes
    /\ villain_archetypes = BaseVillainArchetypes
    /\ villains = BaseVillains
    /\ power_categories = BaseCategories
    /\ power_sets = BasePowerSets
    /\ \E chosen \in FilteredRefChoices : powers = [k \in PowerKeys |-> PowerWith(chosen, k)]
    /\ InitRun

SpecFiltered == InitFiltered /\ [][Next]_vars

(***************************************************************************)
(* Runs over the categories the fixups name: Prestige, Inherent and        *)
(* Incarnate, and an ordinary category Pool.  Prestige and Pool each hold  *)
(* a power named Inherent.                                                 *)
(***************************************************************************)
INCARNATE == "Incarnate"
POOL == "Pool"
PRESTIGE_INHERENT == <<PRESTIGE, "Travel", "Inherent">>
LORE == <<INCARNATE, "Lore", "Summon">>
SWIFT == <<POOL, "Fitness", "Swift">>
POOL_INHERENT == <<POOL, "Fitness", "Inherent">>

FixupCategories ==
    (<<PRESTIGE>> :> NewPowerCategory(PRESTIGE, << <<PRESTIGE, "Travel">> >>))
    @@ (<<INHERENT>> :> NewPowerCategory(INHERENT, << <<INHERENT, "Basics">> >>))
    @@ (<<INCARNATE>> :> NewPowerCategory(INCARNATE, << <<INCARNATE, "Lore">> >>))
    @@ (<<POOL>> :> NewPowerCategory(POOL, << <<POOL, "Fitness">> >>))

FixupPowerSets ==
    (<<PRESTIGE, "Travel">> :> NewBasePowerSet(<<PRESTIGE, "Travel">>, <<PRESTIGE_INHERENT>>))
    @@ (<<INHERENT, "Basics">> :> NewBasePowerSet(<<INHERENT, "Basics">>, <<REST>>))
    @@ (<<INCARNATE, "Lore">> :> NewBasePowerSet(<<INCARNATE, "Lore">>, <<LORE>>))
    @@ (<<POOL, "Fitness">> :> NewBasePowerSet(<<POOL, "Fitness">>, <<SWIFT, POOL_INHERENT>>))

\* Swift redirects to Prestige.Travel.Inherent, or to nothing.
FixupPowers(redirects) ==
    [k \in {PRESTIGE_INHERENT, REST, LORE, SWIFT, POOL_INHERENT} |->
        NewBasePower(k, IF k = SWIFT THEN redirects ELSE <<>>, <<>>)]

FixupAllowLists ==
    { <<>>, << <<PRESTIGE>> >>, << <<INHERENT>> >>, << <<INCARNATE>> >>, << <<POOL>> >>,
      << <<INCARNATE>>, <<POOL>> >> }

InitFixups ==
    /\ \E allow \in FixupAllowLists :
           config = [power_categories |-> allow, filter_powersets |-> <<>>,
                     global_categories |-> <<>>]
    /\ archetypes = BaseArchetypes
    /\ villain_archetypes = BaseVillainArchetypes
    /\ villains = BaseVillains
    /\ power_categories = FixupCategories
    /\ power_sets = FixupPowerSets
    /\ \E redirects \in {<<>>, <<NewPowerRedirect(PRESTIGE_INHERENT)>>} : powers = FixupPowers(redirects)
    /\ InitRun

SpecFixups == InitFixups /\ [][Next]_vars

(***************************************************************************)
(* Runs over the same tables, where the category Pool also declares the    *)
(* set Inherent.Basics, which the category Inherent declares too.          *)
(***************************************************************************)
SharedCategories ==
    [FixupCategories EXCEPT ![<<POOL>>] =
        NewPowerCategory(POOL, << <<POOL, "Fitness">>, <<INHERENT, "Basics">> >>)]

InitShared ==
    /\ \E allow \in FixupAllowLists :
           config = [power_categories |-> allow, filter_powersets |-> <<>>,
                     global_categories |-> <<>>]
    /\ archetypes = BaseArchetypes
    /\ villain_archetypes = BaseVillainArchetypes
    /\ villains = BaseVillains
    /\ power_categories = SharedCategories
    /\ power_sets = FixupPowerSets
    /\ \E redirects \in {<<>>, <<NewPowerRedirect(PRESTIGE_INHERENT)>>} : powers = FixupPowers(redirects)
    /\ InitRun

SpecShared == InitShared /\ [][Next]_vars

(***************************************************************************)
(* What the states hold, for the properties below.                         *)
(***************************************************************************)
Terminal =={"done", "exited", "panicked"}

LoopEnded == pc \in {"fixups", "done"}

\* The EntCreate and Power parameters the resolver looks at: <<power, effect group, template>>.
ParamSlots ==
    UNION {UNION {{<<k, i, j>> : j \in {n \in 1..Len(powers[k].pp_effects[i].pp_templates) :
                                           powers[k].pp_effects[i].pp_templates[n].p_params.kind
                                               \in {"EntCreate", "Power"}}} :
                  i \in 1..Len(powers[k].pp_effects)} :
           k \in DOMAIN powers}

ParamAt(pwrs, slot) == pwrs[slot[1]].pp_effects[slot[2]].pp_templates[slot[3]].p_params

\* Latches: one per power (redirects_resolved) and one per parameter (resolved).
NumLatches == Cardinality(DOMAIN powers) + Cardinality(ParamSlots)

LatchedIn(pwrs) ==
    Cardinality({k \in DOMAIN pwrs : pwrs[k].redirects_resolved})
    + Cardinality({slot \in ParamSlots : ParamAt(pwrs, slot).resolved})

\* The power names a power refers to: its redirects, its Power parameters
\* (itself excepted) and what the entity defs of its EntCreate parameters grant.
GrantedBy(def) ==
    IF def # None /\ def \in DOMAIN villains
    THEN Range(Flatten([n \in 1..Len(villains[def].powers) |->
                           PowerRefNames(Graph, villains[def].powers[n])]))
    ELSE {}

RefsOf(k) ==
    Range(RedirectNames(powers[k]))
    \cup UNION {IF ParamAt(powers, slot).kind = "Power"
                THEN Range(ParamAt(powers, slot).ppch_power_names) \ {k}
                ELSE GrantedBy(ParamAt(powers, slot).pch_entity_def) :
                slot \in {x \in ParamSlots : x[1] = k}}

\* A category is in the allow-list, or there is no allow-list.
Allowed(c) ==
    Len(config.power_categories) = 0 \/ Contains(config.power_categories, power_categories[c].pch_name)

\* The powers the cascade includes: those linked under an allowed category.
CascadePowerSeed ==
    {k \in DOMAIN powers :
        \E c \in DOMAIN power_categories :
            /\ Allowed(c)
            /\ \E n \in 1..Len(power_categories[c].pp_power_sets) :
                   Contains(power_sets[power_categories[c].pp_power_sets[n]].pp_powers, k)}

RECURSIVE ReachableFrom(_)
ReachableFrom(S) ==
    LET T == S \cup (UNION {RefsOf(k) : k \in S} \cap DOMAIN powers)
    IN  IF T = S THEN S ELSE ReachableFrom(T)

\* What inclusion must be once the loop has ended, whatever the orders were.
ExpectedPowers == ReachableFrom(CascadePowerSeed)

ExpectedRefs == UNION {RefsOf(k) : k \in ExpectedPowers}

ExpectedSets ==
    {s \in DOMAIN power_sets :
        \/ \E k \in ExpectedRefs : SetKeyOf(k) = s
        \/ /\ \E n \in 1..Len(power_sets[s].pp_powers) : TRUE
           /\ \E c \in DOMAIN power_categories :
                  Allowed(c) /\ Contains(power_categories[c].pp_power_sets, s)}

ExpectedCategories ==
    {c \in DOMAIN power_categories :
        \/ \E k \in ExpectedRefs : CatKeyOf(k) = c
        \/ /\ Allowed(c)
           /\ \E n \in 1..Len(power_categories[c].pp_power_sets) :
                  power_categories[c].pp_power_sets[n] \in ExpectedSets}

Included(table) == {x \in DOMAIN table : table[x].include_in_output}

(***************************************************************************)
(* Properties.                                                             *)
(***************************************************************************)

\* C1: the fixed-point loop terminates.  Every increment of count goes with a
\* latch flipped from false to true, so an iteration that returns count > 0
\* has flipped at least one latch: the iterations before the current one
\* account for at least one latch each, and the number of iterations is at
\* most the number of latches plus one.
C1_LoopTerminates ==
    /\ count + (passes - 1) <= LatchedIn(powers)
    /\ passes <= NumLatches + 1

\* A chain of three redirects resolved one power per iteration: three
\* iterations that made progress and the one that found nothing.
C1_Witness ==
    /\ pc = "fixups"
    /\ passes = 4
    /\ count = 0
    /\ LatchedIn(powers) >= 3

\* C2: after the loop, inclusion is closed under redirects.  For every
\* included power and every redirect of it that names a key T: T is included
\* if it is in the power table, and the category of T's first segment and the
\* set of T's first two segments are included if they exist.
C2_ClosedUnderRedirects ==
    LoopEnded =>
        \A k \in Included(powers) :
            \A t \in Range(RedirectNames(powers[k])) :
                /\ t \in DOMAIN powers => powers[t].include_in_output
                /\ CatKeyOf(t) \in DOMAIN power_categories
                       => power_categories[CatKeyOf(t)].include_in_output
                /\ SetKeyOf(t) \in DOMAIN power_sets
                       => power_sets[SetKeyOf(t)].include_in_output

\* Only Jetpack is included by the cascade; it redirects to Raygun and Bite,
\* Bite redirects to Howl, and the loop has included all of them.
C2_Witness ==
    /\ pc = "fixups"
    /\ CascadePowerSeed = {JETPACK}
    /\ RedirectNames(powers[JETPACK]) = <<RAYGUN, BITE>>
    /\ RedirectNames(powers[BITE]) = <<HOWL>>
    /\ Included(powers) = {JETPACK, RAYGUN, BITE, HOWL}
    /\ power_categories[<<PETS>>].include_in_output
    /\ power_sets[<<PETS, "Wolf">>].include_in_output

\* C3: the result of the loop does not depend on the orders in which the
\* passes visited the power table.  When the loop has ended, the included
\* categories, sets and powers are those that the tables alone determine.
C3_OrderIndependent ==
    LoopEnded =>
        /\ Included(powers) = ExpectedPowers
        /\ Included(power_sets) = ExpectedSets
        /\ Included(power_categories) = ExpectedCategories

\* A run of several iterations, in which the order of a pass decides how far
\* the pass gets, has ended with a category included by a reference alone.
C3_Witness ==
    /\ pc = "fixups"
    /\ passes >= 3
    /\ CascadePowerSeed = {JETPACK}
    /\ HOWL \in Included(powers)
    /\ <<PETS>> \in Included(power_categories)

\* C4: include_in_output never goes from true to false, on any category,
\* power set or power, in any step of the run.
C4_IncludeMonotonic ==
    [][/\ \A c \in DOMAIN power_categories :
              power_categories[c].include_in_output => power_categories'[c].include_in_output
       /\ \A s \in DOMAIN power_sets \cap DOMAIN power_sets' :
              power_sets[s].include_in_output => power_sets'[s].include_in_output
       /\ \A k \in DOMAIN powers :
              powers[k].include_in_output => powers'[k].include_in_output]_vars

\* A power included by the cascade was marked again by a redirect, and the
\* run went through every later step.
C4_Witness ==
    /\ pc = "done"
    /\ Len(config.power_categories) = 0
    /\ BITE \in Range(RedirectNames(powers[HOWL]))
    /\ powers[BITE].include_in_output
    /\ powers[HOWL].redirects_resolved

\* C5: resolved and redirects_resolved are one-way latches.  No step sets a
\* latch back to false; processing a power whose redirects_resolved is true,
\* or a parameter whose resolved is true, marks nothing and counts nothing;
\* and what a pass adds to count is the number of latches it flipped.
C5_LatchedNeverReprocessed ==
    \A k \in DOMAIN powers :
        /\ powers[k].redirects_resolved => VisitRedirects(Graph, k) = Graph
        /\ \A slot \in {x \in ParamSlots : x[1] = k} :
               ParamAt(powers, slot).resolved
                   => VisitParam(Graph, slot[1], slot[2], slot[3]) = Graph

C5_OneWayLatches ==
    [](C5_LatchedNeverReprocessed)
    /\ [][/\ \A k \in DOMAIN powers :
                 powers[k].redirects_resolved => powers'[k].redirects_resolved
          /\ \A slot \in ParamSlots :
                 ParamAt(powers, slot).resolved => ParamAt(powers', slot).resolved
          /\ pc = "resolve_entity_defs" /\ run = 1
                 => count' = LatchedIn(powers') - LatchedIn(powers)
          /\ pc = "resolve_redirects"
                 => count' - count = LatchedIn(powers') - LatchedIn(powers)]_vars

\* A later iteration began with latches of both kinds already set, and the
\* run ended normally.
C5_Witness ==
    /\ pc = "done"
    /\ passes >= 3
    /\ \E k \in DOMAIN powers : powers[k].redirects_resolved
    /\ \E slot \in ParamSlots : ParamAt(powers, slot).resolved /\ ParamAt(powers, slot).kind = "EntCreate"
    /\ \E slot \in ParamSlots : ParamAt(powers, slot).resolved /\ ParamAt(powers, slot).kind = "Power"

\* C6: the loop run a second time on the graph the first run left returns
\* count = 0 on its first pass, ends there, and leaves every
\* include_in_output flag, latch, archetype list and power_refs list as it was.
C6_RerunIdempotent ==
    run = 2 =>
        /\ pc \in {"resolve_entity_defs", "resolve_redirects", "fixups", "done"}
        /\ count = 0
        /\ passes <= 1
        /\ pc = "resolve_entity_defs" => passes = 0
        /\ pc # "done" => <<power_categories, power_sets, powers>> = snapshot
        /\ <<power_categories, power_sets>> = <<snapshot[1], snapshot[2]>>

\* The second run has ended over a graph with resolved EntCreate grants,
\* resolved redirects and inherited archetypes.
C6_Witness ==
    /\ run = 2
    /\ pc = "fixups"
    /\ passes = 1
    /\ \E slot \in ParamSlots :
           ParamAt(powers, slot).resolved /\ Len(ParamAt(powers, slot).power_refs) > 0
    /\ \E k \in DOMAIN powers :
           powers[k].redirects_resolved /\ Len(powers[k].pp_redirect) > 0
    /\ powers[BITE].archetypes # <<>>

\* C7: nothing but an allow-list that matches no category aborts the run.
C7_OnlyAllowListAborts ==
    /\ pc # "panicked"
    /\ pc = "exited" => FilteredThemAll(power_categories)

\* C8: a redirect of an included power that names a key absent from the power
\* table raises no error (a pass panics only on a power that redirects to
\* itself); the power stays included and is latched, its other redirects are
\* followed, and the only power records the pass changes are the powers it
\* latched and the existing targets of their redirects.
HasDanglingRedirect(k) ==
    \E t \in Range(RedirectNames(powers[k])) : t \notin DOMAIN powers

LatchedByStep(k) == ~powers[k].redirects_resolved /\ powers'[k].redirects_resolved

C8_DanglingRedirectSkipped ==
    [][pc = "resolve_redirects" =>
        \A k \in DOMAIN powers :
            powers[k].include_in_output /\ ~powers[k].redirects_resolved /\ HasDanglingRedirect(k)
            => /\ pc' = "panicked"
                   => \E q \in DOMAIN powers : q \in Range(RedirectNames(powers[q]))
               /\ pc' # "panicked"
                   => /\ powers'[k].include_in_output
                      /\ powers'[k].redirects_resolved
                      /\ \A t \in Range(RedirectNames(powers[k])) \cap DOMAIN powers :
                             powers'[t].include_in_output
                      /\ \A q \in DOMAIN powers :
                             powers'[q] # powers[q]
                             => \/ LatchedByStep(q)
                                \/ \E src \in DOMAIN powers :
                                       LatchedByStep(src) /\ q \in Range(RedirectNames(powers[src]))]_vars

\* Jetpack, with a redirect to the missing Ghost and one to Bite, has been
\* processed: it is latched and Bite is included.
C8_Witness ==
    /\ pc \in {"resolve_entity_defs", "fixups"}
    /\ passes >= 1
    /\ RedirectNames(powers[JETPACK]) = <<BITE, GHOST>>
    /\ powers[JETPACK].include_in_output
    /\ powers[JETPACK].redirects_resolved
    /\ powers[BITE].include_in_output
    /\ CascadePowerSeed = {JETPACK}

\* C9: with a non-empty allow-list that no category's name is in, the run
\* exits (process::exit(1)) before anything is matched, linked or included;
\* with an empty allow-list or one that a category matches, it never exits.
NothingDoneYet ==
    /\ \A c \in DOMAIN power_categories :
           /\ power_categories[c].archetypes = <<>>
           /\ power_categories[c].pp_power_sets = <<>>
           /\ ~power_categories[c].include_in_output
    /\ \A s \in DOMAIN power_sets :
           power_sets[s].pp_powers = <<>> /\ ~power_sets[s].include_in_output
    /\ \A k \in DOMAIN powers :
           /\ ~powers[k].include_in_output
           /\ ~powers[k].redirects_resolved
           /\ powers[k].archetypes = <<>>
    /\ passes = 0

AllowListMatchesNothing ==
    /\ Len(config.power_categories) > 0
    /\ \A c \in DOMAIN power_categories :
           ~Contains(config.power_categories, power_categories[c].pch_name)

C9_ExitWhenNothingMatches ==
    /\ AllowListMatchesNothing => pc \in {"read_powercats", "exited"} /\ NothingDoneYet
    /\ ~AllowListMatchesNothing => pc # "exited"

\* The run has exited on an allow-list naming only a missing category.
C9_Witness ==
    /\ pc = "exited"
    /\ config.power_categories = << <<"Missing">> >>

\* A run whose allow-list names a missing category and an existing one went on.
C9_WitnessContinues ==
    /\ pc = "done"
    /\ config.power_categories = << <<"Missing">>, <<TEMP>> >>

\* C10: with a non-empty allow-list, a category whose name is not in it
\* never has top_level = true, also when a redirect or a grant includes it.
C10_NotAllowedNeverTopLevel ==
    Len(config.power_categories) > 0 =>
        \A c \in DOMAIN power_categories :
            ~Contains(config.power_categories, power_categories[c].pch_name)
                => ~power_categories[c].top_level

\* Villain_Pets, not in the allow-list, was included by a reference and is
\* not top-level at the end of the run.
C10_Witness ==
    /\ pc = "done"
    /\ Len(config.power_categories) > 0
    /\ ~Contains(config.power_categories, <<PETS>>)
    /\ power_categories[<<PETS>>].include_in_output
    /\ ~power_categories[<<PETS>>].top_level

\* The cascade has run.
Assembled == pc \in {"resolve_entity_defs", "resolve_redirects", "fixups", "done", "panicked"}

\* The category has a linked power set that declares a power of the power table.
HasResolvablePower(c) ==
    \E s \in Range(power_categories[c].pp_power_sets) :
        \E name \in Range(power_sets[s].pp_power_names) : name \in DOMAIN powers

\* C11: with an empty allow-list, after assembly a category is top-level
\* exactly when one of its linked power sets contains a power that resolves
\* in the power table.
C11_EmptyAllowListTopLevel ==
    Assembled /\ Len(config.power_categories) = 0 =>
        \A c \in DOMAIN power_categories :
            power_categories[c].top_level <=> HasResolvablePower(c)

\* With an empty allow-list the run has ended with Temporary_Powers top-level,
\* Prestige demoted because its only set was filtered out, and Inherent
\* demoted because its linked set declares only a power that does not exist.
C11_Witness ==
    /\ pc = "done"
    /\ Len(config.power_categories) = 0
    /\ power_categories[<<TEMP>>].top_level
    /\ power_categories[<<PRESTIGE>>].pp_power_sets = <<>>
    /\ ~power_categories[<<PRESTIGE>>].top_level
    /\ power_categories[<<INHERENT>>].pp_power_sets = << <<INHERENT, "Basics">> >>
    /\ REST \notin DOMAIN powers
    /\ ~power_categories[<<INHERENT>>].top_level

NoDuplicates(list) == \A i, j \in 1..Len(list) : i # j => list[i] # list[j]

\* C12: after match_archetypes_to_power_categories and in every later state,
\* no category's archetypes list holds the same archetype record twice.
C12_NoDuplicateArchetypes ==
    \A c \in DOMAIN power_categories : NoDuplicates(power_categories[c].archetypes)

\* The elements of part are in whole, next to each other and in the same order.
IsSegment(part, whole) ==
    \E off \in 0..(Len(whole) - Len(part)) :
        \A i \in 1..Len(part) : whole[off + i] = part[i]

\* The keys of the sets that the wildcard power references of a VillainDef name.
WildcardSets(def) ==
    {<<villains[def].powers[n].power_category, villains[def].powers[n].power_set>> :
        n \in {m \in 1..Len(villains[def].powers) : is_wildcard(villains[def].powers[m].power)}}

\* C13: an EntCreate parameter of an included power that names an existing
\* entity def is, once resolved, bound to that def; for every wildcard power
\* reference (category, set, *) of the def, its power_refs hold every power
\* name the set category.set declares, in declared order, and each of those
\* powers that is in the power table is included.  Until it is resolved its
\* power_refs are empty.
C13_EntCreateWildcardCopied ==
    \A slot \in ParamSlots :
        LET e == ParamAt(powers, slot) IN
        e.kind = "EntCreate" =>
            /\ ~e.resolved /\ pc # "panicked" => e.power_refs = <<>>
            /\ e.resolved /\ e.pch_entity_def \in DOMAIN villains =>
                   /\ powers[slot[1]].include_in_output
                   /\ e.villain_def = e.pch_entity_def
                   /\ \A s \in WildcardSets(e.pch_entity_def) \cap DOMAIN power_sets :
                          /\ IsSegment(power_sets[s].pp_power_names, e.power_refs)
                          /\ \A name \in Range(power_sets[s].pp_power_names) \cap DOMAIN powers :
                                 powers[name].include_in_output

\* Jetpack's EntCreate parameter names Pet_Wolf, whose VillainDef lists
\* (Villain_Pets, Wolf, *): the parameter is resolved, holds the three names
\* the set declares, and Bite and Howl, which no allow-list entry or redirect
\* reaches, are included.
C13_Witness ==
    /\ pc = "done"
    /\ config.power_categories = << <<"Missing">>, <<TEMP>> >>
    /\ \A k \in DOMAIN powers : RedirectNames(powers[k]) = <<>>
    /\ \E slot \in ParamSlots :
           /\ slot[1] = JETPACK
           /\ ParamAt(powers, slot).pch_entity_def = PET_WOLF
           /\ ParamAt(powers, slot).resolved
           /\ ParamAt(powers, slot).power_refs = <<BITE, GHOST, HOWL>>
    /\ powers[BITE].include_in_output
    /\ powers[HOWL].include_in_output

\* The powers linked in the power sets linked in category c.
LinkedPowers(c) ==
    UNION {Range(power_sets[s].pp_powers) : s \in Range(power_categories[c].pp_power_sets)}

BoostTypes == {"kPowerType_Boost", "kPowerType_GlobalBoost"}

\* C14: the fixups leave every power linked under a top-level category named
\* Temporary_Powers with b_free = true and i_max_boosts = 0; its
\* pe_boosts_allowed is emptied, unless the power is of type Boost or
\* GlobalBoost, and then it is left as it was.
C14_TemporaryPowersFixed ==
    [][pc = "fixups" =>
        \A c \in DOMAIN power_categories :
            power_categories[c].top_level /\ power_categories[c].pch_name = <<"Temporary_Powers">>
            => \A k \in LinkedPowers(c) :
                   /\ powers'[k].b_free
                   /\ powers'[k].i_max_boosts = 0
                   /\ powers'[k].pe_boosts_allowed =
                          IF powers[k].e_type \in BoostTypes
                          THEN powers[k].pe_boosts_allowed
                          ELSE <<>>]_vars

\* Fixups have run over a top-level Temporary_Powers: Jetpack, of type Boost,
\* kept its allowed boosts; the Click power next to it lost them; both are
\* free and take no boosts.
C14_Witness ==
    /\ pc = "done"
    /\ power_categories[<<TEMP>>].top_level
    /\ LinkedPowers(<<TEMP>>) = {JETPACK, TEMP_INHERENT}
    /\ powers[JETPACK].e_type = "kPowerType_Boost"
    /\ powers[JETPACK].pe_boosts_allowed = <<"Damage">>
    /\ powers[JETPACK].b_free /\ powers[JETPACK].i_max_boosts = 0
    /\ powers[TEMP_INHERENT].e_type = "kPowerType_Click"
    /\ powers[TEMP_INHERENT].pe_boosts_allowed = <<>>
    /\ powers[TEMP_INHERENT].b_free /\ powers[TEMP_INHERENT].i_max_boosts = 0

\* match_archetypes_to_power_categories has run.
Matched == pc \notin {"read_powercats", "match", "exited"}

\* The slots of archetype a that name category c.
SlotsNaming(a, c) ==
    {slot \in {"pch_primary_category", "pch_secondary_category",
               "pch_epic_pool_category", "pch_power_pool_category"} :
        archetypes[a][slot] = c}

\* The archetypes category c is matched to: by a slot of theirs, or, all of
\* them, by the global category list.
MatchedTo(c) ==
    {a \in DOMAIN archetypes :
        SlotsNaming(a, c) # {} \/ Contains(config.global_categories, c)}

\* C15: after matching, a category matched to exactly one archetype, and to
\* it by its primary slot only, has that archetype alone in its archetypes
\* list and pri_sec = Primary; a category that no primary or secondary slot
\* names has pri_sec = None.
C15_PrimaryMatch ==
    Matched =>
        \A c \in DOMAIN power_categories :
            /\ \A a \in DOMAIN archetypes :
                   MatchedTo(c) = {a} /\ SlotsNaming(a, c) = {"pch_primary_category"}
                   => /\ power_categories[c].archetypes = <<ATRef("archetypes", a)>>
                      /\ power_categories[c].pri_sec = "Primary"
            /\ (\A a \in DOMAIN archetypes :
                    SlotsNaming(a, c) \cap {"pch_primary_category", "pch_secondary_category"} = {})
                   => power_categories[c].pri_sec = "None"

\* Prestige is the primary category of Class_Blaster and of nothing else, and
\* Inherent is named by the global list only: Prestige is Primary with
\* Class_Blaster alone, Inherent has both archetypes and pri_sec None.
C15_Witness ==
    /\ pc = "done"
    /\ MatchedTo(<<PRESTIGE>>) = {<<"Class_Blaster">>}
    /\ SlotsNaming(<<"Class_Blaster">>, <<PRESTIGE>>) = {"pch_primary_category"}
    /\ power_categories[<<PRESTIGE>>].pri_sec = "Primary"
    /\ Len(power_categories[<<INHERENT>>].archetypes) = Cardinality(DOMAIN archetypes)
    /\ power_categories[<<INHERENT>>].pri_sec = "None"

\* C16: no resolution pass has mark_power_for_inclusion borrow for mutation
\* the power record the pass is holding, so no pass ends in the panic of a
\* second borrow: not for a Power parameter that names its own power, not
\* for a redirect to the power that owns it, not for an EntCreate parameter
\* whose entity def grants the power that owns the parameter.
C16_HeldPowerNeverMarked ==
    [][(pc \in {"resolve_entity_defs", "resolve_redirects"}) => (pc' # "panicked")]_vars

\* A run without any redirect in which the pass over the grants has panicked:
\* Bite's EntCreate parameter names Pet_Wolf, which grants Bite.
C16_EntCreateRoutePanics ==
    /\ pc = "panicked"
    /\ \A k \in DOMAIN powers : powers[k].pp_redirect = <<>>

\* C17: when the loop has ended, the archetypes of every included power have
\* reached the targets of its redirects: every archetype in the list of an
\* included power P is in the list of every existing power that a redirect of
\* P names, whatever the orders of the passes were.
C17_ArchetypesFollowRedirects ==
    LoopEnded =>
        \A k \in Included(powers) :
            \A t \in Range(RedirectNames(powers[k])) \cap DOMAIN powers :
                Range(powers[k].archetypes) \subseteq Range(powers[t].archetypes)

\* The EntCreate and Power parameters of the templates of a list of effect
\* groups and of their child effect groups, at any depth.
RECURSIVE ParamsIn(_)
ParamsIn(effects) ==
    UNION {{effects[i].pp_templates[j].p_params :
               j \in {n \in 1..Len(effects[i].pp_templates) :
                         effects[i].pp_templates[n].p_params.kind \in {"EntCreate", "Power"}}}
           \cup ParamsIn(effects[i].pp_effects) :
           i \in 1..Len(effects)}

\* C18: when the loop has ended, every included power has redirects_resolved
\* = true, and every EntCreate or Power parameter of every template of its
\* effect groups, child effect groups at any depth included, has resolved =
\* true.
C18_IncludedFullyResolved ==
    LoopEnded =>
        \A k \in Included(powers) :
            /\ powers[k].redirects_resolved
            /\ \A param \in ParamsIn(powers[k].pp_effects) : param.resolved

\* The part of C18 that the passes do establish: the latch of the power and
\* the parameters of the templates of its own effect groups.
C18_TopLevelResolved ==
    LoopEnded =>
        \A k \in Included(powers) :
            /\ powers[k].redirects_resolved
            /\ \A slot \in {x \in ParamSlots : x[1] = k} : ParamAt(powers, slot).resolved

\* The power names that the records of power j name now: its redirects, its
\* Power parameters and the power_refs of its resolved EntCreate parameters.
NamedBy(j) ==
    Range(RedirectNames(powers[j]))
    \cup UNION {IF ParamAt(powers, slot).kind = "Power"
                THEN Range(ParamAt(powers, slot).ppch_power_names)
                ELSE IF ParamAt(powers, slot).resolved
                     THEN Range(ParamAt(powers, slot).power_refs)
                     ELSE {} :
                slot \in {x \in ParamSlots : x[1] = j}}

\* C19: the loop includes nothing beyond what is reachable.  When it has
\* ended, every included power is linked under a category that was top-level
\* when the cascade ran, or is named by a redirect, a Power parameter or the
\* power_refs of a resolved EntCreate parameter of another included power.  A
\* power that is not included has redirects_resolved = false and every
\* parameter unresolved, in every state of the run.
C19_OnlyReachableIncluded ==
    /\ LoopEnded =>
           \A k \in Included(powers) :
               \/ k \in CascadePowerSeed
               \/ \E j \in Included(powers) \ {k} : k \in NamedBy(j)
    /\ \A k \in DOMAIN powers \ Included(powers) :
           /\ ~powers[k].redirects_resolved
           /\ \A param \in ParamsIn(powers[k].pp_effects) :
                  ~param.resolved /\ param.power_refs = <<>>

\* Only Jetpack is under a top-level category.  Bite and Howl are included
\* because Jetpack's resolved EntCreate parameter holds them; Raygun, which
\* nothing names, is not included and its redirect and its EntCreate
\* parameter are untouched.
C19_Witness ==
    /\ pc = "done"
    /\ CascadePowerSeed = {JETPACK}
    /\ Included(powers) = {JETPACK, BITE, HOWL}
    /\ {BITE, HOWL} \subseteq NamedBy(JETPACK)
    /\ RedirectNames(powers[JETPACK]) = <<>>
    /\ RedirectNames(powers[RAYGUN]) # <<>>
    /\ ~powers[RAYGUN].redirects_resolved
    /\ \E param \in ParamsIn(powers[RAYGUN].pp_effects) : ~param.resolved

C21_CascadeFlags ==
    [][pc = "cascade" =>
        \A c \in DOMAIN power_categories :
            IF power_categories[c].top_level
            THEN /\ \A s \in Range(power_categories[c].pp_power_sets) :
                        power_sets'[s].include_in_output <=> Len(power_sets[s].pp_powers) > 0
                 /\ power_categories'[c].include_in_output
                        <=> \E s \in Range(power_categories[c].pp_power_sets) :
                                power_sets'[s].include_in_output
                 /\ power_categories'[c].top_level <=> power_categories'[c].include_in_output
            ELSE power_categories'[c] = power_categories[c]]_vars

\* The cascade has just run with the allow-list [Prestige]: Prestige is
\* top-level and included through its set Travel; Temporary_Powers was not
\* top-level and is untouched, with its set and its powers.
C21_Witness ==
    /\ pc = "resolve_entity_defs"
    /\ passes = 0
    /\ config.power_categories = << <<PRESTIGE>> >>
    /\ power_categories[<<PRESTIGE>>].top_level
    /\ power_categories[<<PRESTIGE>>].include_in_output
    /\ power_sets[<<PRESTIGE, "Travel">>].include_in_output
    /\ ~power_categories[<<TEMP>>].top_level
    /\ ~power_categories[<<TEMP>>].include_in_output
    /\ ~power_sets[<<TEMP, "Gadgets">>].include_in_output
    /\ ~power_categories[<<INHERENT>>].top_level

\* C22: from the cascade to the end of load_powers_dictionary, every category
\* with top_level = true has include_in_output = true, so the root index,
\* which lists a category when both flags are true, lists exactly the
\* top-level categories.
C22_TopLevelIsIncluded ==
    Assembled =>
        /\ \A c \in DOMAIN power_categories :
               power_categories[c].top_level => power_categories[c].include_in_output
        /\ Range(from_power_categories(power_categories_returned, power_categories))
               = {c \in DOMAIN power_categories : power_categories[c].top_level}

\* The run has ended with Temporary_Powers and Prestige in the root index and
\* Inherent, demoted by the cascade, out of it.
C22_Witness ==
    /\ pc = "done"
    /\ Range(from_power_categories(power_categories_returned, power_categories))
           = {<<TEMP>>, <<PRESTIGE>>}
    /\ ~power_categories[<<INHERENT>>].top_level
    /\ ~power_categories[<<INHERENT>>].include_in_output

\* A call has been made: snapshot holds its arguments and the graph before it.
Called(call) == pc \in {"returned", "panicked"} /\ snapshot.call = call

\* C23: mark_power_for_inclusion(c.s.p) marks the three levels independently.
\* After the call the category keyed c is included if it exists, the set
\* keyed c.s is included if it exists and the power keyed c.s.p is included
\* if it exists, whichever of the other two exist; no other record is
\* changed, and no top_level flag, no latch and no parameter is changed.
C23_MarksThreeLevelsIndependently ==
    Called("mark_power_for_inclusion") =>
        LET before == snapshot.g
            p == snapshot.power_ref
        IN  /\ pc = "returned"
            /\ DOMAIN power_categories = DOMAIN before.cats
            /\ DOMAIN power_sets = DOMAIN before.sets
            /\ DOMAIN powers = DOMAIN before.powers
            /\ \A c \in DOMAIN power_categories :
                   power_categories[c] =
                       IF c = <<p[1]>> THEN [before.cats[c] EXCEPT !.include_in_output = TRUE]
                       ELSE before.cats[c]
            /\ \A s \in DOMAIN power_sets :
                   power_sets[s] =
                       IF s = <<p[1], p[2]>> THEN [before.sets[s] EXCEPT !.include_in_output = TRUE]
                       ELSE before.sets[s]
            /\ \A k \in DOMAIN powers :
                   IF k = p
                   THEN /\ powers[k].include_in_output
                        /\ [powers[k] EXCEPT !.include_in_output = FALSE, !.archetypes = <<>>]
                               = [before.powers[k] EXCEPT !.include_in_output = FALSE,
                                                          !.archetypes = <<>>]
                   ELSE powers[k] = before.powers[k]

\* Bite has been marked in a graph with neither the category Villain_Pets nor
\* the set Wolf; Bite was latched and is still.
C23_Witness ==
    /\ Called("mark_power_for_inclusion")
    /\ snapshot.power_ref = BITE
    /\ <<PETS>> \notin DOMAIN power_categories
    /\ <<PETS, "Wolf">> \notin DOMAIN power_sets
    /\ BITE \in DOMAIN powers
    /\ ~snapshot.g.powers[BITE].include_in_output
    /\ powers[BITE].include_in_output

\* The category and the set of a key were marked though the power is missing.
C23_WitnessMissingPower ==
    /\ Called("mark_power_for_inclusion")
    /\ snapshot.power_ref = GHOST
    /\ <<PETS>> \in DOMAIN power_categories
    /\ <<PETS, "Wolf">> \in DOMAIN power_sets
    /\ ~snapshot.g.cats[<<PETS>>].include_in_output
    /\ power_categories[<<PETS>>].include_in_output
    /\ power_sets[<<PETS, "Wolf">>].include_in_output
    /\ ~power_categories[<<PETS>>].top_level

IsPrefix(part, whole) ==
    Len(part) <= Len(whole) /\ \A i \in 1..Len(part) : whole[i] = part[i]

\* The index of the first occurrence of x in list.
FirstIndex(list, x) == CHOOSE i \in 1..Len(list) : list[i] = x /\ \A j \in 1..(i - 1) : list[j] # x

\* C24: when mark_power_for_inclusion finds the power, the new archetypes
\* list of the power is its old list followed by the inheriting archetypes
\* that were not in it, each once, in the order of their first occurrence in
\* the inheriting list; and every call made in the loop, of
\* mark_power_for_inclusion or of the pass over the grants, leaves the old
\* list of every power as a prefix of its new list.
C24_ArchetypesMerged ==
    /\ Called("mark_power_for_inclusion") /\ snapshot.power_ref \in DOMAIN powers =>
           LET old == snapshot.g.powers[snapshot.power_ref].archetypes
               new == powers[snapshot.power_ref].archetypes
               added == SubSeq(new, Len(old) + 1, Len(new))
           IN  /\ IsPrefix(old, new)
               /\ Range(added) = Range(snapshot.archetypes) \ Range(old)
               /\ NoDuplicates(added)
               /\ \A i, j \in 1..Len(added) :
                      i < j => FirstIndex(snapshot.archetypes, added[i])
                                   < FirstIndex(snapshot.archetypes, added[j])
    /\ pc \in {"returned", "panicked"} =>
           \A k \in DOMAIN powers :
               IsPrefix(snapshot.g.powers[k].archetypes, powers[k].archetypes)

\* Bite held [Class_Pet]; it was marked with [Class_Pet, Class_Blaster,
\* Class_Pet] and holds [Class_Pet, Class_Blaster].
C24_Witness ==
    /\ Called("mark_power_for_inclusion")
    /\ snapshot.power_ref = BITE
    /\ snapshot.archetypes = <<CLASS_PET, BLASTER, CLASS_PET>>
    /\ BITE \in DOMAIN powers
    /\ snapshot.g.powers[BITE].archetypes = <<CLASS_PET>>
    /\ powers[BITE].archetypes = <<CLASS_PET, BLASTER>>

\* The powers whose latch the step flips and that have a redirect naming t.
FlippedSourcesOf(t) ==
    {src \in DOMAIN powers : LatchedByStep(src) /\ t \in Range(RedirectNames(powers[src]))}

\* What a call of resolve_power_redirects has done in the step: it has
\* latched every power that was included and unlatched when it began; every
\* power it latched is included; for every redirect of a latched power that
\* names a target, the target's category, set and power are included where
\* they exist and the target's archetypes list holds every archetype the
\* source held when the call began and gains only archetypes that a latched
\* source naming it holds when the call ends; a power is newly included only
\* as the target of a latched source; and the count the call adds is the
\* number of latches it flipped, a power without redirects included.
RedirectPassLatchedAndCounted ==
    /\ DOMAIN powers' = DOMAIN powers
    /\ \A k \in DOMAIN powers :
           powers[k].include_in_output /\ ~powers[k].redirects_resolved => LatchedByStep(k)
    /\ \A k \in DOMAIN powers :
           /\ powers[k].redirects_resolved => powers'[k].redirects_resolved
           /\ LatchedByStep(k) => powers'[k].include_in_output
    /\ count' - count = Cardinality({k \in DOMAIN powers : LatchedByStep(k)})
    /\ \A src \in DOMAIN powers : \A t \in Range(RedirectNames(powers[src])) :
           LatchedByStep(src) =>
               /\ CatKeyOf(t) \in DOMAIN power_categories
                  => power_categories'[CatKeyOf(t)].include_in_output
               /\ SetKeyOf(t) \in DOMAIN power_sets
                  => power_sets'[SetKeyOf(t)].include_in_output
               /\ t \in DOMAIN powers
                  => /\ powers'[t].include_in_output
                     /\ Range(powers[src].archetypes)
                            \subseteq Range(powers'[t].archetypes)
    /\ \A t \in DOMAIN powers :
           /\ IsPrefix(powers[t].archetypes, powers'[t].archetypes)
           /\ Range(powers'[t].archetypes) \ Range(powers[t].archetypes)
                  \subseteq UNION {Range(powers'[src].archetypes) : src \in FlippedSourcesOf(t)}
           /\ ~powers[t].include_in_output /\ powers'[t].include_in_output
                  => FlippedSourcesOf(t) # {}

\* C25: one call of resolve_power_redirects that returns has latched every
\* power that was included and unlatched when it began, has marked the
\* target of every redirect of the powers it latched with the source's
\* archetypes at that moment, and has added to the count exactly the number
\* of latches it flipped, a power with no redirects counting too.
C25_RedirectPassLatchesAndCounts ==
    [][(pc = "resolve_redirects" /\ pc' # "panicked") => RedirectPassLatchedAndCounted]_vars

\* The one call that does not return: it has panicked on an included power
\* with a redirect to itself, which is left unlatched and uncounted.
C25_SelfRedirectPanics ==
    /\ pc = "panicked"
    /\ \E k \in DOMAIN powers :
           /\ powers[k].include_in_output
           /\ ~powers[k].redirects_resolved
           /\ k \in Range(RedirectNames(powers[k]))

\* One pass has run and returned: Jetpack, the only power the cascade
\* included, has a redirect to Bite and is latched; Bite, which has no
\* redirect, is included with Jetpack's archetype and latched as well.
C25_Witness ==
    /\ pc \in {"resolve_entity_defs", "fixups"}
    /\ passes = 1
    /\ CascadePowerSeed = {JETPACK}
    /\ RedirectNames(powers[JETPACK]) = <<BITE>>
    /\ ParamsIn(powers[JETPACK].pp_effects) = {}
    /\ powers[JETPACK].redirects_resolved
    /\ powers[BITE].pp_redirect = <<>>
    /\ powers[BITE].include_in_output
    /\ powers[BITE].redirects_resolved
    /\ powers[JETPACK].archetypes # <<>>
    /\ Range(powers[JETPACK].archetypes) \subseteq Range(powers[BITE].archetypes)

\* The parameter of the one template of Jetpack in a power table.
JetpackParam(table) == table[JETPACK].pp_effects[1].pp_templates[1].p_params

\* A power record after it was marked with a list of distinct archetypes.
MarkedWith(power, ats) ==
    [power EXCEPT !.include_in_output = TRUE,
                  !.archetypes = @ \o SelectSeq(ats, LAMBDA at : at \notin Range(power.archetypes))]

\* The pass over the grants has returned after resolving Jetpack's parameter
\* into param, marking exactly the keys in names with the archetypes ats, and
\* has counted one parameter.
GrantPassDid(param, names, ats) ==
    LET before == snapshot.g IN
    /\ pc = "returned"
    /\ count = 1
    /\ DOMAIN power_categories = DOMAIN before.cats
    /\ DOMAIN power_sets = DOMAIN before.sets
    /\ DOMAIN powers = DOMAIN before.powers
    /\ \A c \in DOMAIN power_categories :
           power_categories[c] =
               IF \E n \in names : CatKeyOf(n) = c
               THEN [before.cats[c] EXCEPT !.include_in_output = TRUE]
               ELSE before.cats[c]
    /\ \A s \in DOMAIN power_sets :
           power_sets[s] =
               IF \E n \in names : SetKeyOf(n) = s
               THEN [before.sets[s] EXCEPT !.include_in_output = TRUE]
               ELSE before.sets[s]
    /\ \A k \in DOMAIN powers :
           powers[k] =
               IF k = JETPACK
               THEN [before.powers[k]
                        EXCEPT !.pp_effects[1].pp_templates[1].p_params = param]
               ELSE IF k \in names THEN MarkedWith(before.powers[k], ats)
               ELSE before.powers[k]

\* The pass over the grants was called with Jetpack's parameter unresolved
\* and of the given kind.
CalledOnParam(kind) ==
    /\ Called("resolve_entity_defs_and_power_grants")
    /\ JetpackParam(snapshot.g.powers).kind = kind
    /\ ~JetpackParam(snapshot.g.powers).resolved

\* C26: resolving the unresolved Power parameter of the included power
\* Jetpack marks every power the parameter names other than Jetpack: the
\* category, set and power of each such name are included where they exist
\* and each found power's list is extended with the archetypes of Jetpack it
\* lacks; the name equal to Jetpack's own full name is skipped, Jetpack's
\* record changing in its parameter only and the pass not panicking; the
\* parameter is then resolved and the pass has counted one.
C26_PowerParamGrants ==
    CalledOnParam("Power") =>
        LET param == JetpackParam(snapshot.g.powers) IN
        GrantPassDid([param EXCEPT !.resolved = TRUE],
                     Range(param.ppch_power_names) \ {JETPACK},
                     snapshot.g.powers[JETPACK].archetypes)

\* Jetpack, holding [Class_Blaster], names Jetpack, Bite and the missing
\* Ghost: Bite, not included before, is included with [Class_Blaster], the
\* parameter is resolved and the pass returned having counted one.
C26_Witness ==
    /\ CalledOnParam("Power")
    /\ JetpackParam(snapshot.g.powers).ppch_power_names = <<JETPACK, BITE, GHOST>>
    /\ snapshot.g.powers[JETPACK].archetypes = <<BLASTER>>
    /\ BITE \in DOMAIN powers
    /\ ~snapshot.g.powers[BITE].include_in_output
    /\ powers[BITE].include_in_output
    /\ powers[BITE].archetypes = <<BLASTER>>
    /\ JetpackParam(powers).resolved
    /\ pc = "returned"
    /\ count = 1

\* The names one power reference of a VillainDef contributes, given the
\* tables before the call.
CopiedNames(before, power_ref) ==
    LET key == <<power_ref.power_category, power_ref.power_set, power_ref.power>> IN
    IF power_ref.power = WILDCARD
    THEN IF SetKeyOf(key) \in DOMAIN before.sets
         THEN before.sets[SetKeyOf(key)].pp_power_names
         ELSE <<>>
    ELSE IF key \in DOMAIN before.powers THEN <<key>> ELSE <<>>

\* The archetype found under a class name, if any.
ClassArchetypes(class_name) ==
    IF class_name = NoString THEN <<>>
    ELSE IF <<"@" \o class_name>> \in DOMAIN villain_archetypes
    THEN <<ATRef("villain_archetypes", <<"@" \o class_name>>)>>
    ELSE <<>>

\* C27: when the EntCreate parameter of Jetpack names an existing VillainDef,
\* power_refs is, in the order of the VillainDef's power references, the full
\* name of each specifically referenced power whose three-segment key is in
\* the power table (nothing for a key that is not) and the declared names of
\* each wildcard-referenced set; and every name in power_refs is marked with
\* the villain archetype found under "@" + class name, or with no archetype
\* when the VillainDef has no class name or no archetype is found under it.
C27_EntCreateSpecificRefs ==
    CalledOnParam("EntCreate") /\ JetpackParam(snapshot.g.powers).pch_entity_def \in DOMAIN villains
    =>  LET param == JetpackParam(snapshot.g.powers)
            villain_def == villains[param.pch_entity_def]
            refs == Flatten([i \in 1..Len(villain_def.powers) |->
                                CopiedNames(snapshot.g, villain_def.powers[i])])
        IN  GrantPassDid([param EXCEPT !.villain_def = param.pch_entity_def,
                                       !.power_refs = refs,
                                       !.resolved = TRUE],
                         Range(refs),
                         ClassArchetypes(villain_def.character_class_name))

\* Pet_Cat, of class Class_Pet, refers to Howl specifically: power_refs is
\* [Howl] and Howl is included with [@Class_Pet].
C27_Witness ==
    /\ CalledOnParam("EntCreate")
    /\ JetpackParam(snapshot.g.powers).pch_entity_def = PET_CAT
    /\ HOWL \in DOMAIN powers
    /\ JetpackParam(powers).power_refs = <<HOWL>>
    /\ powers[HOWL].include_in_output
    /\ powers[HOWL].archetypes = <<CLASS_PET>>

\* Pet_Bat, without a class name, refers to Bite and to the missing Ghost:
\* power_refs is [Bite] and Bite is included with its list unchanged.
C27_WitnessNoClass ==
    /\ CalledOnParam("EntCreate")
    /\ JetpackParam(snapshot.g.powers).pch_entity_def = PET_BAT
    /\ BITE \in DOMAIN powers
    /\ ~snapshot.g.powers[BITE].include_in_output
    /\ JetpackParam(powers).power_refs = <<BITE>>
    /\ powers[BITE].include_in_output
    /\ powers[BITE].archetypes = <<>>

\* Pet_Rat, of the unknown class Class_Unknown, refers to a Howl that is not
\* in the power table: power_refs is empty of it and nothing is marked.
C27_WitnessNotFound ==
    /\ CalledOnParam("EntCreate")
    /\ JetpackParam(snapshot.g.powers).pch_entity_def = PET_RAT
    /\ HOWL \notin DOMAIN powers
    /\ <<PETS, "Wolf">> \notin DOMAIN power_sets
    /\ JetpackParam(powers).power_refs = <<>>
    /\ JetpackParam(powers).resolved

\* C28: an unresolved EntCreate parameter of the included power Jetpack whose
\* entity-def name is absent or is not in the villain table is resolved and
\* counted once by the pass; its villain_def stays unset and its power_refs
\* empty, and every category, set and power is as it was before the call.
C28_MissingEntityDefLatched ==
    CalledOnParam("EntCreate") /\ JetpackParam(snapshot.g.powers).pch_entity_def \notin DOMAIN villains
    =>  /\ GrantPassDid([JetpackParam(snapshot.g.powers) EXCEPT !.resolved = TRUE], {}, <<>>)
        /\ JetpackParam(powers).villain_def = None
        /\ JetpackParam(powers).power_refs = <<>>

\* The EntCreate parameter names Pet_Missing, which the villain table lacks;
\* the pass returned, the parameter is resolved and one was counted.
C28_Witness ==
    /\ CalledOnParam("EntCreate")
    /\ JetpackParam(snapshot.g.powers).pch_entity_def = PET_MISSING
    /\ PET_MISSING \notin DOMAIN villains
    /\ JetpackParam(powers).resolved
    /\ count = 1
    /\ pc = "returned"

\* The EntCreate parameter names no entity def at all and was resolved.
C28_WitnessAbsentName ==
    /\ CalledOnParam("EntCreate")
    /\ JetpackParam(snapshot.g.powers).pch_entity_def = None
    /\ JetpackParam(powers).resolved
    /\ count = 1

\* How many entries of list equal x.
Occurrences(list, x) == Cardinality({i \in 1..Len(list) : list[i] = x})

\* C29: after match_archetypes_to_power_categories, the archetypes list of
\* an existing category C holds archetype A if and only if a primary,
\* secondary, epic-pool or power-pool slot of A names C or the global
\* category list has an entry naming C, once for each such slot and entry,
\* and holds nothing but archetypes; a slot or global entry naming a category
\* that does not exist creates no category and stops nothing.
C29_ArchetypeListedIffMatched ==
    Matched =>
        /\ DOMAIN power_categories = DOMAIN AssemblyCategories
        /\ \A c \in DOMAIN power_categories :
               /\ \A a \in DOMAIN archetypes :
                      /\ Contains(power_categories[c].archetypes, ATRef("archetypes", a))
                             <=> a \in MatchedTo(c)
                      /\ Occurrences(power_categories[c].archetypes, ATRef("archetypes", a))
                             = Cardinality(SlotsNaming(a, c))
                               + Occurrences(config.global_categories, c)
               /\ Range(power_categories[c].archetypes)
                      \subseteq {ATRef("archetypes", a) : a \in DOMAIN archetypes}

\* Class_Blaster names the missing category in a pool slot and the global
\* list names it too; the run is done, Inherent, named by the global list
\* only, lists both archetypes, and Prestige, which nothing names, lists none.
C29_Witness ==
    /\ pc = "done"
    /\ <<"Missing">> \in {archetypes[<<"Class_Blaster">>].pch_epic_pool_category,
                          archetypes[<<"Class_Blaster">>].pch_power_pool_category}
    /\ Contains(config.global_categories, <<"Missing">>)
    /\ <<"Missing">> \notin DOMAIN power_categories
    /\ Range(power_categories[<<INHERENT>>].archetypes)
           = {ATRef("archetypes", a) : a \in DOMAIN archetypes}
    /\ MatchedTo(<<PRESTIGE>>) = {}
    /\ power_categories[<<PRESTIGE>>].archetypes = <<>>

\* The archetypes with a primary or secondary slot naming category c.
PriSecNamers(c) ==
    {a \in DOMAIN archetypes :
        SlotsNaming(a, c) \cap {"pch_primary_category", "pch_secondary_category"} # {}}

\* The slot type of the last primary-or-secondary match applied to c when the
\* archetypes are visited in the given order, the primary slot of an
\* archetype before its secondary slot.
LastPriSec(c, order) ==
    LET hits == {i \in 1..Len(order) : order[i] \in PriSecNamers(c)} IN
    IF hits = {} THEN "None"
    ELSE LET last == order[CHOOSE i \in hits : \A j \in hits : j <= i]
         IN  IF archetypes[last].pch_secondary_category = c THEN "Secondary" ELSE "Primary"

\* C30: processing one archetype whose primary and secondary slots name the
\* same existing category leaves that category with pri_sec = Secondary,
\* whatever pri_sec it had; and after matching there is an order of the
\* archetypes for which pri_sec of every category is the slot type of the
\* last primary-or-secondary match applied to it, None if there was none.
C30_SecondaryAfterPrimary ==
    /\ \A a \in DOMAIN archetypes :
           LET c == archetypes[a].pch_primary_category IN
           c # None /\ c = archetypes[a].pch_secondary_category /\ c \in DOMAIN power_categories
           => MatchArchetype(power_categories, a)[c].pri_sec = "Secondary"
    /\ Matched =>
           \E order \in Orders(DOMAIN archetypes) :
               \A c \in DOMAIN power_categories :
                   power_categories[c].pri_sec = LastPriSec(c, order)

\* Class_Blaster names Prestige in its primary and in its secondary slot and
\* no other archetype names it: Prestige is Secondary and lists Class_Blaster twice.
C30_Witness ==
    /\ Matched
    /\ archetypes[<<"Class_Blaster">>].pch_primary_category = <<PRESTIGE>>
    /\ archetypes[<<"Class_Blaster">>].pch_secondary_category = <<PRESTIGE>>
    /\ PriSecNamers(<<PRESTIGE>>) = {<<"Class_Blaster">>}
    /\ power_categories[<<PRESTIGE>>].pri_sec = "Secondary"
    /\ Occurrences(power_categories[<<PRESTIGE>>].archetypes,
                   ATRef("archetypes", <<"Class_Blaster">>)) >= 2

\* Temporary_Powers is named by both slots of Class_Blaster and by the
\* primary slot of Class_Tank, which was visited last: it is Primary.
C30_WitnessLastWins ==
    /\ Matched
    /\ archetypes[<<"Class_Blaster">>].pch_primary_category = <<TEMP>>
    /\ archetypes[<<"Class_Blaster">>].pch_secondary_category = <<TEMP>>
    /\ archetypes[<<"Class_Tank">>].pch_primary_category = <<TEMP>>
    /\ power_categories[<<TEMP>>].pri_sec = "Primary"

\* The powers are linked into the sets; the sets are linked into the categories.
PowersLinked == pc \notin {"read_powercats", "match", "filter", "link_powers", "exited"}
SetsLinked == PowersLinked /\ pc # "link_sets"

\* How many of the first i names are in table.
ResolvedUpTo(names, table, i) == Cardinality({j \in 1..i : names[j] \in DOMAIN table})

\* linked holds, for each name that is in table, that name's record, at the
\* position the name has among the names that are in table, and nothing else.
LinksExactly(linked, names, table) ==
    /\ Len(linked) = ResolvedUpTo(names, table, Len(names))
    /\ \A i \in 1..Len(names) :
           names[i] \in DOMAIN table => linked[ResolvedUpTo(names, table, i)] = names[i]

\* C31: once the powers are linked, pp_powers of every power set is the
\* sequence of the powers found in the power table for the names of
\* pp_power_names, in declared order, the names that are not in the table
\* skipped; once the sets are linked, pp_power_sets of every category is
\* likewise the sequence of the existing sets for ppch_power_set_names; and
\* before its linking step each list is empty.
C31_LinkedInDeclaredOrder ==
    /\ \A s \in DOMAIN power_sets :
           IF PowersLinked
           THEN LinksExactly(power_sets[s].pp_powers, power_sets[s].pp_power_names, powers)
           ELSE power_sets[s].pp_powers = <<>>
    /\ \A c \in DOMAIN power_categories :
           IF SetsLinked
           THEN LinksExactly(power_categories[c].pp_power_sets,
                             power_categories[c].ppch_power_set_names, power_sets)
           ELSE power_categories[c].pp_power_sets = <<>>

\* Wolf declares Bite, the missing Ghost and Howl and links Bite and Howl;
\* Temporary_Powers declares Gadgets and the missing set Gone and links Gadgets.
C31_Witness ==
    /\ pc = "done"
    /\ power_sets[<<PETS, "Wolf">>].pp_power_names = <<BITE, GHOST, HOWL>>
    /\ GHOST \notin DOMAIN powers
    /\ power_sets[<<PETS, "Wolf">>].pp_powers = <<BITE, HOWL>>
    /\ power_categories[<<TEMP>>].ppch_power_set_names = << <<TEMP, "Gadgets">>, <<TEMP, "Gone">> >>
    /\ power_categories[<<TEMP>>].pp_power_sets = << <<TEMP, "Gadgets">> >>

\* The power sets have been filtered.
SetsFiltered == pc \notin {"read_powercats", "match", "filter", "exited"}

\* The name of a power set as read matches a configured power-set filter.
Filtered(s) ==
    \E i \in 1..Len(config.filter_powersets) :
        /\ Len(config.filter_powersets[i]) <= Len(s)
        /\ \A n \in 1..Len(config.filter_powersets[i]) :
               config.filter_powersets[i][n] \in {WILDCARD, s[n]}

\* The EntCreate parameters of the power table whose entity def refers, by
\* wildcard and by nothing else, to filtered power sets only.
WildcardOnlyIntoFiltered ==
    {slot \in ParamSlots :
        /\ ParamAt(powers, slot).kind = "EntCreate"
        /\ ParamAt(powers, slot).pch_entity_def \in DOMAIN villains
        /\ \A r \in Range(villains[ParamAt(powers, slot).pch_entity_def].powers) :
               r.power = WILDCARD /\ Filtered(<<r.power_category, r.power_set>>)}

\* C32: once the power sets are filtered, the power-set table holds exactly
\* the sets as read whose name matches no configured filter, so that no
\* filtered set is ever a record that the cascade or mark_power_for_inclusion
\* could mark; no category links a filtered set; and an EntCreate parameter
\* whose entity def refers by wildcard to filtered sets only has an empty
\* power_refs, resolved or not.
C32_FilteredSetsRemoved ==
    SetsFiltered =>
        /\ DOMAIN power_sets = {s \in DOMAIN BasePowerSets : ~Filtered(s)}
        /\ \A c \in DOMAIN power_categories :
               \A s \in Range(power_categories[c].pp_power_sets) : ~Filtered(s)
        /\ \A slot \in WildcardOnlyIntoFiltered : ParamAt(powers, slot).power_refs = <<>>

\* Wolf is filtered by name and Villain_Pets was top-level as read: the run
\* is done, Jetpack's EntCreate parameter naming Pet_Wolf is resolved with
\* no power reference, Jetpack's redirect has included Bite and Villain_Pets,
\* and Villain_Pets links no set.
C32_Witness ==
    /\ pc = "done"
    /\ config.filter_powersets = << <<PETS, "Wolf">> >>
    /\ config.power_categories = <<>>
    /\ <<PETS, "Wolf">> \notin DOMAIN power_sets
    /\ \E slot \in WildcardOnlyIntoFiltered :
           ParamAt(powers, slot).resolved /\ ParamAt(powers, slot).villain_def = PET_WOLF
    /\ RedirectNames(powers[JETPACK]) = <<BITE>>
    /\ powers[BITE].include_in_output
    /\ power_categories[<<PETS>>].include_in_output
    /\ power_categories[<<PETS>>].pp_power_sets = <<>>

\* Wolf is filtered by a wildcard filter and nothing but the EntCreate
\* parameter refers into it: none of its powers is included.
C32_WitnessNothingGranted ==
    /\ pc = "done"
    /\ config.filter_powersets = << <<"Missing">>, <<WILDCARD, "Wolf">> >>
    /\ WildcardOnlyIntoFiltered # {}
    /\ RefsOf(JETPACK) = {}
    /\ ~powers[BITE].include_in_output
    /\ ~powers[HOWL].include_in_output
    /\ ~power_categories[<<PETS>>].include_in_output

\* The top-level categories that power k is linked under.
TopLevelOver(k) ==
    {c \in DOMAIN power_categories : power_categories[c].top_level /\ k \in LinkedPowers(c)}

\* C33: the fixups leave every power linked under a top-level
\* category named Prestige with b_free = true and i_force_level_bought = 0;
\* every power linked under a top-level category that is named Inherent, or
\* that is itself named Inherent, with b_free = true and b_auto_issue = true;
\* every power linked under a top-level category named Incarnate with b_free
\* = true; and every power linked under no top-level category as it was.
C33_FreePowersFixed ==
    [][pc = "fixups" =>
        \A k \in DOMAIN powers :
            /\ \A c \in TopLevelOver(k) :
                   /\ c = <<"Prestige">>
                          => powers'[k].b_free /\ powers'[k].i_force_level_bought = 0
                   /\ c = <<"Inherent">> \/ powers[k].pch_name = "Inherent"
                          => powers'[k].b_free /\ powers'[k].b_auto_issue
                   /\ c = <<"Incarnate">> => powers'[k].b_free
            /\ TopLevelOver(k) = {} => powers'[k] = powers[k]]_vars

\* What the fixups do: the name of the power counts only under a top-level
\* category that is not named Prestige.  A power linked under a
\* top-level category named Inherent, or itself named Inherent and linked
\* under a top-level category not named Prestige, has b_free = true and
\* b_auto_issue = true; a power linked under no top-level category but
\* Prestige keeps its b_auto_issue, whatever its name.
C33_FreePowersFixedPrestigeFirst ==
    [][pc = "fixups" =>
        \A k \in DOMAIN powers :
            /\ \A c \in TopLevelOver(k) :
                   /\ c = <<"Prestige">>
                          => powers'[k].b_free /\ powers'[k].i_force_level_bought = 0
                   /\ c = <<"Inherent">> \/ (c # <<"Prestige">> /\ powers[k].pch_name = "Inherent")
                          => powers'[k].b_free /\ powers'[k].b_auto_issue
                   /\ c = <<"Incarnate">> => powers'[k].b_free
            /\ TopLevelOver(k) = {<<"Prestige">>}
                   => powers'[k].b_auto_issue = powers[k].b_auto_issue
            /\ TopLevelOver(k) = {} => powers'[k] = powers[k]]_vars

\* Fixups have run with every category top-level: the power named Inherent
\* of Prestige is free at level 0 and not auto-issued, the power named
\* Inherent of Pool and Rest of Inherent are free and auto-issued, Summon of
\* Incarnate is free, Swift of Pool is as it was.
C33_Witness ==
    /\ pc = "done"
    /\ \A c \in DOMAIN power_categories : power_categories[c].top_level
    /\ TopLevelOver(PRESTIGE_INHERENT) = {<<PRESTIGE>>}
    /\ powers[PRESTIGE_INHERENT].b_free
    /\ powers[PRESTIGE_INHERENT].i_force_level_bought = 0
    /\ ~powers[PRESTIGE_INHERENT].b_auto_issue
    /\ powers[POOL_INHERENT].b_free /\ powers[POOL_INHERENT].b_auto_issue
    /\ powers[REST].b_free /\ powers[REST].b_auto_issue
    /\ powers[LORE].b_free /\ ~powers[LORE].b_auto_issue
    /\ ~powers[SWIFT].b_free

\* Only Pool is top-level and Swift redirects into Prestige: the power named
\* Inherent of Prestige is included and the fixups left it as it was.
C33_WitnessNotTopLevel ==
    /\ pc = "done"
    /\ TopLevelOver(PRESTIGE_INHERENT) = {}
    /\ powers[PRESTIGE_INHERENT].include_in_output
    /\ ~powers[PRESTIGE_INHERENT].b_free
    /\ powers[PRESTIGE_INHERENT].i_force_level_bought = -1

\* The steps from one phase of load_powers_dictionary to the next.
PhaseSteps ==
    { <<"read_powercats", "match">>, <<"read_powercats", "exited">>,
      <<"match", "filter">>, <<"filter", "link_powers">>, <<"link_powers", "link_sets">>,
      <<"link_sets", "cascade">>, <<"cascade", "resolve_entity_defs">>,
      <<"resolve_entity_defs", "resolve_redirects">>, <<"resolve_entity_defs", "panicked">>,
      <<"resolve_redirects", "resolve_entity_defs">>, <<"resolve_redirects", "fixups">>,
      <<"resolve_redirects", "panicked">>, <<"fixups", "done">> }

\* What each phase writes, read off a table.
MatchedFields(cats) == [c \in DOMAIN cats |-> <<cats[c].archetypes, cats[c].pri_sec>>]
LinkFields(table, field) == [x \in DOMAIN table |-> table[x][field]]
LatchFields(pwrs) ==
    [k \in DOMAIN pwrs |-> <<pwrs[k].redirects_resolved, pwrs[k].pp_effects>>]
FixupFields(pwrs) ==
    [k \in DOMAIN pwrs |-> <<pwrs[k].b_free, pwrs[k].b_auto_issue, pwrs[k].i_force_level_bought,
                              pwrs[k].i_max_boosts, pwrs[k].pe_boosts_allowed>>]

\* C34: the phases of a run happen in a fixed order.  Every step goes from a
\* phase to the next one: matching, filtering, linking powers, linking sets,
\* the cascade, then the loop, each iteration of which resolves entity defs
\* and power grants before redirects, then the fixups, then the end.  What
\* matching writes changes in the matching step only, the linked lists in
\* the two linking steps only, inclusion flags only from the cascade on and
\* never after the loop, latches only in the loop, and what the fixups write
\* in the fixups step only; the loop is left for the fixups exactly when an
\* iteration has returned count = 0, and the fixups step is taken once.
C34_PhasesInOrder ==
    [][/\ <<pc, pc'>> \in PhaseSteps
       /\ MatchedFields(power_categories') # MatchedFields(power_categories) => pc = "match"
       /\ LinkFields(power_sets', "pp_powers") # LinkFields(power_sets, "pp_powers")
              => pc = "link_powers"
       /\ LinkFields(power_categories', "pp_power_sets")
              # LinkFields(power_categories, "pp_power_sets") => pc = "link_sets"
       /\ \/ Included(power_categories') # Included(power_categories)
          \/ Included(power_sets') # Included(power_sets)
          \/ Included(powers') # Included(powers)
          => pc \in {"cascade", "resolve_entity_defs", "resolve_redirects"}
       /\ LatchFields(powers') # LatchFields(powers)
              => pc \in {"resolve_entity_defs", "resolve_redirects"}
       /\ FixupFields(powers') # FixupFields(powers) => pc = "fixups"
       /\ pc = "resolve_entity_defs" => passes' = passes + 1
       /\ pc # "resolve_entity_defs" => passes' = passes
       /\ pc = "resolve_redirects" /\ pc' # "panicked" => (pc' = "fixups" <=> count' = 0)]_vars

\* A run is done after three iterations of the loop, the last of which
\* counted nothing; the fixups have made Jetpack free.
C34_Witness ==
    /\ pc = "done"
    /\ passes = 3
    /\ count = 0
    /\ powers[JETPACK].b_free
    /\ LatchedIn(powers) >= 2

\* What the writer of the raw output reaches in the current state.
Written == write_powers_dictionary(power_categories_returned, power_categories, power_sets, powers)

\* The categories the root index lists in the current state.
Indexed == Range(from_power_categories(power_categories_returned, power_categories))

\* C35: no pass of the resolution loop and no fixup changes the top_level
\* flag of a category, and a category that a pass of the loop includes was
\* and stays not top-level; so at the end of the run a category outside the
\* allow-list that a redirect, a Power parameter or an EntCreate grant of an
\* included power points into has include_in_output = true and top_level =
\* false, and every category with these two flags is written by the writer
\* of the raw output and is not listed in the root index.
C35_LoopKeepsTopLevel ==
    /\ [][(pc \in {"resolve_entity_defs", "resolve_redirects", "fixups"}) =>
            \A c \in DOMAIN power_categories :
                /\ power_categories'[c].top_level = power_categories[c].top_level
                /\ ~power_categories[c].include_in_output /\ power_categories'[c].include_in_output
                       => (~power_categories'[c].top_level)]_vars
    /\ [](pc = "done" =>
            \A c \in DOMAIN power_categories :
                /\ ~Allowed(c) /\ (\E k \in ExpectedRefs : CatKeyOf(k) = c)
                       => power_categories[c].include_in_output /\ ~power_categories[c].top_level
                /\ power_categories[c].include_in_output /\ ~power_categories[c].top_level
                       => c \in Written.categories /\ c \notin Indexed)

\* The allow-list names Temporary_Powers only and a reference of Jetpack
\* points into Villain_Pets: at the end Villain_Pets is included and not
\* top-level, written and not indexed; Temporary_Powers is indexed.
C35_Witness ==
    /\ pc = "done"
    /\ ~Allowed(<<PETS>>)
    /\ \E k \in RefsOf(JETPACK) : CatKeyOf(k) = <<PETS>>
    /\ power_categories[<<PETS>>].include_in_output
    /\ ~power_categories[<<PETS>>].top_level
    /\ <<PETS>> \in Written.categories
    /\ Indexed = {<<TEMP>>}

\* The power keyed c.s.p is declared by the existing set keyed c.s, which is
\* declared by the existing category keyed c.
DeclaredInPlace(k) ==
    /\ SetKeyOf(k) \in DOMAIN power_sets
    /\ Contains(power_sets[SetKeyOf(k)].pp_power_names, k)
    /\ CatKeyOf(k) \in DOMAIN power_categories
    /\ Contains(power_categories[CatKeyOf(k)].ppch_power_set_names, SetKeyOf(k))

\* The set keyed c.s is declared by the existing category keyed c.
SetDeclaredInPlace(s) ==
    /\ CatKeyOf(s) \in DOMAIN power_categories
    /\ Contains(power_categories[CatKeyOf(s)].ppch_power_set_names, s)

\* The category keyed c is the only one to declare the set of the power
\* keyed c.s.p, and the set keyed c.s the only one to declare the power.
DeclaredOnlyInPlace(k) ==
    /\ \A c \in DOMAIN power_categories :
           Contains(power_categories[c].ppch_power_set_names, SetKeyOf(k)) => c = CatKeyOf(k)
    /\ \A s \in DOMAIN power_sets :
           Contains(power_sets[s].pp_power_names, k) => s = SetKeyOf(k)

C36_WitnessSharedSet ==
    /\ pc = "done"
    /\ DeclaredInPlace(REST) /\ ~DeclaredOnlyInPlace(REST)
    /\ powers[REST].include_in_output
    /\ power_sets[<<INHERENT, "Basics">>].include_in_output
    /\ ~power_categories[<<INHERENT>>].include_in_output
    /\ REST \in Written.powers
====
